---- MODULE Spec2Model ----
(***************************************************************************)
(* A model of cosmos/dbt/graph.py (DbtGraph: the multi-strategy loader and *)
(* its dbt ls cache) and of the parts of cosmos/cache.py it drives.        *)
(*                                                                         *)
(* Texts are sequences of line tokens (the "\n"-joined lines of a dbt ls   *)
(* output); bytes are natural numbers; the Airflow Variable store holds    *)
(* one value under the graph's cache key.                                  *)
(***************************************************************************)
EXTENDS Naturals, Integers, Sequences, FiniteSets, TLC

(***************************************************************************)
(* Bounds of the model.                                                    *)
(***************************************************************************)
\* the longest dbt ls output, in lines
MaxLines == 1
\* the largest modification time of a partial parse file (0: no file)
MaxAge == 2
\* the longest depends_on of a test node
MaxDeps == 1
\* the most node records of a partial parse document
MaxRecords == 2
\* the latest execution date of a dag run
MaxDate == 2

(***************************************************************************)
(* Generic helpers.                                                        *)
(***************************************************************************)
SeqsUpTo(S, n) == UNION {[1..k -> S] : k \in 0..n}

RECURSIVE Concat(_)
Concat(ss) == IF ss = <<>> THEN <<>> ELSE Head(ss) \o Concat(Tail(ss))

\* the sequences of elements of S without repetition
Orders(S) ==
    {o \in SeqsUpTo(S, Cardinality(S)) : \A i, j \in 1..Len(o) : i # j => o[i] # o[j]}

\* a Python dict with string keys: a function whose domain is its key set
EmptyDict == [k \in {} |-> 0]
HasKey(d, k) == k \in DOMAIN d
DictGet(d, k, default) == IF k \in DOMAIN d THEN d[k] ELSE default
DictPop(d, k) == [j \in DOMAIN d \ {k} |-> d[j]]
\* {**a, **b}: the keys of b win
DictMerge(a, b) == [k \in DOMAIN a \cup DOMAIN b |-> IF k \in DOMAIN b THEN b[k] ELSE a[k]]

(***************************************************************************)
(* The lines a dbt ls run can print.                                       *)
(*   "m"  the JSON document of a model node                                *)
(*   "t"  the JSON document of a test node that depends on the model       *)
(*   "x"  a JSON document that is no node (no unique_id)                   *)
(*   "E"  a log line that contains Error (not JSON)                        *)
(*   "D"  the line asking to run dbt deps (not JSON)                       *)
(*   ""   the empty line                                                   *)
(***************************************************************************)
OkLines == {"m", "t", "x"}
ErrorLines == {"E", "D"}
Lines == OkLines \cup ErrorLines
Texts == SeqsUpTo(Lines, MaxLines)
OkTexts == SeqsUpTo(OkLines, MaxLines)

\* str.split("\n"): the empty text splits into one empty line
Split(text) == IF text = <<>> THEN <<"">> ELSE text

\* "Error" in stdout.replace("WarnErrorOptions", ""): no line of the model
\* mentions WarnErrorOptions
ContainsError(text) == \E i \in 1..Len(text) : text[i] = "E"
\* 'Run "dbt deps" to install package dependencies' in stdout
ContainsDepsHint(text) == \E i \in 1..Len(text) : text[i] = "D"

(***************************************************************************)
(* str.encode("utf-8") / bytes.decode(): one code per line token.          *)
(***************************************************************************)
Utf8Code(line) ==
    CASE line = "m" -> 1
      [] line = "t" -> 2
      [] line = "x" -> 3
      [] line = "E" -> 5
      [] line = "D" -> 6
      [] OTHER -> 0

Utf8Line(code) ==
    CASE code = 1 -> "m"
      [] code = 2 -> "t"
      [] code = 3 -> "x"
      [] code = 5 -> "E"
      [] code = 6 -> "D"
      [] OTHER -> ""

utf8_encode(text) == [i \in 1..Len(text) |-> Utf8Code(text[i])]
utf8_decode(bytes) == [i \in 1..Len(bytes) |-> Utf8Line(bytes[i])]

(***************************************************************************)
(* zlib.compress / zlib.decompress: a header byte, the run-length encoded  *)
(* input and a trailing checksum.  Decompression fails (zlib.error) on a   *)
(* stream without the header, with a broken run or with a wrong checksum.  *)
(***************************************************************************)
RECURSIVE SumSeq(_)
SumSeq(s) == IF s = <<>> THEN 0 ELSE Head(s) + SumSeq(Tail(s))

Adler(bytes) == (1 + SumSeq(bytes)) % 251

\* length of the run of equal bytes at the head of a non-empty sequence
RECURSIVE RunLen(_)
RunLen(s) ==
    IF Len(s) >= 2 /\ s[2] = s[1] THEN 1 + RunLen(Tail(s)) ELSE 1

RECURSIVE Deflate(_)
Deflate(s) ==
    IF s = <<>> THEN <<>>
    ELSE LET n == RunLen(s) IN <<n, s[1]>> \o Deflate(SubSeq(s, n + 1, Len(s)))

RECURSIVE Inflate(_)
Inflate(p) ==
    IF p = <<>> THEN <<>>
    ELSE [i \in 1..p[1] |-> p[2]] \o Inflate(SubSeq(p, 3, Len(p)))

zlib_compress(bytes) == <<120>> \o Deflate(bytes) \o <<Adler(bytes)>>

\* [ok: FALSE when zlib.error is raised, data: the decompressed bytes]
zlib_decompress(data) ==
    IF Len(data) < 2 \/ data[1] # 120 \/ (Len(data) - 2) % 2 # 0
    THEN [ok |-> FALSE, data |-> <<>>]
    ELSE LET body == SubSeq(data, 2, Len(data) - 1)
             out == Inflate(body)
         IN IF \E i \in 1..Len(body) : i % 2 = 1 /\ body[i] = 0
            THEN [ok |-> FALSE, data |-> <<>>]
            ELSE IF Adler(out) # data[Len(data)]
            THEN [ok |-> FALSE, data |-> <<>>]
            ELSE [ok |-> TRUE, data |-> out]

(***************************************************************************)
(* base64.b64encode / base64.b64decode: every byte becomes a digit of the  *)
(* alphabet (its value shifted by 1000), padded with "=" (0) to a multiple *)
(* of four.  Decoding a text whose length is no multiple of four fails     *)
(* (binascii.Error: incorrect padding).                                    *)
(***************************************************************************)
b64encode(bytes) ==
    LET pad == (4 - (Len(bytes) % 4)) % 4
    IN [i \in 1..Len(bytes) |-> bytes[i] + 1000] \o [i \in 1..pad |-> 0]

\* [ok: FALSE when binascii.Error is raised, data: the decoded bytes]
b64decode(chars) ==
    IF Len(chars) % 4 # 0 THEN [ok |-> FALSE, data |-> <<>>]
    ELSE LET digits == SelectSeq(chars, LAMBDA c : c # 0)
         IN [ok |-> TRUE, data |-> [i \in 1..Len(digits) |-> digits[i] - 1000]]

(***************************************************************************)
(* cosmos/cache.py: the fingerprint of a project directory and of the      *)
(* command arguments.  A directory is a function from file paths to file   *)
(* contents; a path is its rank in the lexicographic order of the paths.   *)
(* hashlib.md5 is taken as collision free: the digest of a byte sequence   *)
(* is the sequence itself, tagged.                                         *)
(***************************************************************************)
md5_hexdigest(bytes) == <<"md5">> \o bytes

\* cache.py 226-228: the orders in which os.walk can list the files
os_walk(dir_path) ==
    {filepaths \in Orders(DOMAIN dir_path) : Len(filepaths) = Cardinality(DOMAIN dir_path)}

\* sorted with a fault (C15): the files are read in the order of the listing
sorted_as_listed(filepaths) == filepaths

\* cache.py 230: sorted(filepaths)
RECURSIVE sorted(_)
sorted(filepaths) ==
    IF filepaths = <<>> THEN <<>>
    ELSE LET first == Head(filepaths)
             rest == sorted(Tail(filepaths))
         IN SelectSeq(rest, LAMBDA filepath : filepath < first) \o <<first>> \o
            SelectSeq(rest, LAMBDA filepath : filepath >= first)

\* cache.py 223-235 on the files as os.walk has listed them: only fp.read() goes
\* into the digest
hash_files(filepaths, dir_path) ==
    LET ordered == sorted(filepaths)
    IN md5_hexdigest(Concat([i \in 1..Len(ordered) |-> dir_path[ordered[i]]]))

\* cache.py 238-260 with the listing of os.walk and the modification time of
\* the files; f"{dbt_project_hash},{hash_args}"
version_of_listing(cache_identifier, filepaths, st_mtime, project_dir, cmd_args) ==
    <<"version", hash_files(filepaths, project_dir), md5_hexdigest(Concat(cmd_args))>>

\* a load lists the files in one of the orders of os.walk
_create_folder_version_hash(dir_path) ==
    hash_files(CHOOSE filepaths \in os_walk(dir_path) : TRUE, dir_path)

_calculate_dbt_ls_cache_current_version(cache_identifier, project_dir, cmd_args) ==
    version_of_listing(cache_identifier, CHOOSE filepaths \in os_walk(project_dir) : TRUE,
                       0, project_dir, cmd_args)

\* was_project_modified with a fault (C1): a stored version is never taken as stale
was_project_modified_never(previous_version, current_version) == FALSE

was_project_modified(previous_version, current_version) ==
    previous_version # current_version

(***************************************************************************)
(* The value kept under the cache key in the Airflow Variable store.       *)
(* Variable.set(serialize_json=True) writes json.dumps of a dict;          *)
(* Variable.get(deserialize_json=True) raises KeyError for an absent key   *)
(* and JSONDecodeError for a value that is not JSON.                       *)
(***************************************************************************)
Absent == [kind |-> "absent", type |-> "none", doc |-> EmptyDict]
NotJson == [kind |-> "text", type |-> "none", doc |-> EmptyDict]
json_dumps(d) == [kind |-> "json", type |-> "dict", doc |-> d]
\* a JSON document that is no object (a list, a number, null)
JsonNonDict == [kind |-> "json", type |-> "other", doc |-> EmptyDict]

\* compress_dbt_ls_output with a fault (C4): the output is encoded, not compressed
compress_dbt_ls_output_uncompressed(dbt_ls_output) == b64encode(utf8_encode(dbt_ls_output))

\* graph.py 259-261
compress_dbt_ls_output(dbt_ls_output) == b64encode(zlib_compress(utf8_encode(dbt_ls_output)))

\* graph.py 262-269: the dict save_dbt_ls_cache stores
save_dbt_ls_cache_dict(dbt_ls_output, version, airflow_metadata) ==
    DictMerge([k \in {"version", "dbt_ls_compressed", "last_modified"} |->
                  CASE k = "version" -> version
                    [] k = "dbt_ls_compressed" -> compress_dbt_ls_output(dbt_ls_output)
                    [] OTHER -> <<"isoformat">>],
              airflow_metadata)

\* graph.py 247-270
save_dbt_ls_cache(dbt_ls_output, version, airflow_metadata) ==
    json_dumps(save_dbt_ls_cache_dict(dbt_ls_output, version, airflow_metadata))

\* graph.py 272-294: [raised: the exception that escapes, dict: the result]
get_dbt_ls_cache(value) ==
    IF value.kind = "absent" THEN [raised |-> "none", dict |-> EmptyDict]
    ELSE IF value.kind # "json" THEN [raised |-> "none", dict |-> EmptyDict]
    ELSE IF value.type # "dict" THEN [raised |-> "AttributeError", dict |-> EmptyDict]
    ELSE LET cache_dict == DictPop(value.doc, "dbt_ls_compressed")
         IN IF ~HasKey(value.doc, "dbt_ls_compressed") \/ value.doc["dbt_ls_compressed"] = <<>>
            THEN [raised |-> "none", dict |-> cache_dict]
            ELSE LET encoded_data == b64decode(value.doc["dbt_ls_compressed"])
                     raw == zlib_decompress(encoded_data.data)
                 IN IF ~encoded_data.ok
                    THEN [raised |-> "binascii.Error", dict |-> EmptyDict]
                    ELSE IF ~raw.ok
                    THEN [raised |-> "zlib.error", dict |-> EmptyDict]
                    ELSE [raised |-> "none",
                          dict |-> DictMerge(cache_dict,
                                       [k \in {"dbt_ls"} |-> utf8_decode(raw.data)])]

(***************************************************************************)
(* Nodes.  A unique_id "model.proj.a" is the tuple of its parts.  A Python *)
(* dict of nodes is the sequence of its entries in insertion order; an     *)
(* entry holds a key and the identity of a DbtNode object, so that two     *)
(* dicts can hold the same object (has_test is set in place).              *)
(***************************************************************************)
ModelId == <<"model", "proj", "a">>
TestId == <<"test", "proj", "t">>

\* graph.py 48-60: the dataclass, has_test defaults to False
DbtNode(unique_id, resource_type, depends_on) ==
    [unique_id |-> unique_id, resource_type |-> resource_type,
     depends_on |-> depends_on, has_test |-> FALSE]

Keys(d) == {d[i].key : i \in 1..Len(d)}
Lookup(d, k) == d[CHOOSE i \in 1..Len(d) : d[i].key = k].obj
\* d[k] = obj
DictSet(d, k, obj) ==
    IF k \in Keys(d)
    THEN [i \in 1..Len(d) |-> IF d[i].key = k THEN [key |-> k, obj |-> obj] ELSE d[i]]
    ELSE Append(d, [key |-> k, obj |-> obj])

\* json.loads(line.strip()): FALSE when JSONDecodeError is raised
IsJson(line) == line \in {"m", "t", "x"}
json_loads(line) ==
    CASE line = "m" -> [k \in {"unique_id", "resource_type", "depends_on"} |->
                           CASE k = "unique_id" -> ModelId
                             [] k = "resource_type" -> <<"model">>
                             [] OTHER -> <<>>]
      [] line = "t" -> [k \in {"unique_id", "resource_type", "depends_on"} |->
                           CASE k = "unique_id" -> TestId
                             [] k = "resource_type" -> <<"test">>
                             [] OTHER -> <<ModelId>>]
      [] OTHER -> EmptyDict

\* graph.py 128-143, the loop: [raised, objects, nodes]
RECURSIVE parse_lines(_, _, _)
parse_lines(lines, objects, nodes) ==
    IF lines = <<>> THEN [raised |-> "none", objects |-> objects, nodes |-> nodes]
    ELSE IF ~IsJson(Head(lines)) THEN parse_lines(Tail(lines), objects, nodes)
    ELSE LET node_dict == json_loads(Head(lines))
         IN IF ~HasKey(node_dict, "unique_id")
            THEN [raised |-> "KeyError", objects |-> <<>>, nodes |-> <<>>]
            ELSE LET node == DbtNode(node_dict["unique_id"],
                                     node_dict["resource_type"][1],
                                     DictGet(node_dict, "depends_on", <<>>))
                 IN parse_lines(Tail(lines), Append(objects, node),
                                DictSet(nodes, node.unique_id, Len(objects) + 1))

\* graph.py 125-144
parse_dbt_ls_output(project_path, ls_stdout) == parse_lines(Split(ls_stdout), <<>>, <<>>)

(***************************************************************************)
(* The DbtGraph instance: the node objects, the two dicts, whether         *)
(* filtered_nodes is the very dict nodes is, and load_method.              *)
(***************************************************************************)
\* graph.py 155-158: the class attributes a new instance starts from
NewGraph ==
    [objects |-> <<>>, nodes |-> <<>>, filtered_nodes |-> <<>>, aliased |-> FALSE,
     load_method |-> "automatic"]

\* graph.py 623-625, for one node_id of a test node's depends_on
mark_dependency(g, item, node_id) ==
    IF node_id \in Keys(g.filtered_nodes)
    THEN LET target == Lookup(g.filtered_nodes, node_id)
             filtered == DictSet(g.filtered_nodes, g.objects[item.obj].unique_id, item.obj)
         IN [g EXCEPT !.objects[target].has_test = TRUE,
                      !.filtered_nodes = filtered,
                      !.nodes = IF g.aliased THEN filtered ELSE g.nodes]
    ELSE g

RECURSIVE mark_dependencies(_, _, _)
mark_dependencies(g, item, depends_on) ==
    IF depends_on = <<>> THEN g
    ELSE mark_dependencies(mark_dependency(g, item, Head(depends_on)), item, Tail(depends_on))

\* graph.py 620-625 over list(self.nodes.items())
RECURSIVE update_items(_, _)
update_items(g, items) ==
    IF items = <<>> THEN g
    ELSE LET node == g.objects[Head(items).obj]
         IN update_items(IF node.resource_type = "test"
                         THEN mark_dependencies(g, Head(items), node.depends_on)
                         ELSE g,
                         Tail(items))

\* graph.py 613-625
update_node_dependency(g) == update_items(g, g.nodes)

(***************************************************************************)
(* The inputs the model draws from.                                        *)
(***************************************************************************)
\* the project directory: one file, empty or holding one byte
ProjectFiles == {1}
FileContents == {<<>>, <<7>>}
ProjectDirs == [ProjectFiles -> FileContents]

\* dbt_ls_cache_key_args (graph.py 227-245): a list of strings, a string a
\* sequence of characters
CmdArgLists == {<< <<1>>, <<2>> >>}

\* airflow_metadata (graph.py 176, cache.py 30-44)
DagMetadata ==
    [k \in {"cosmos_type", "dag_id", "task_group_id"} |->
        CASE k = "cosmos_type" -> <<"DbtDag">>
          [] k = "dag_id" -> <<"dag">>
          [] OTHER -> <<"null">>]
AirflowMetadatas == {DagMetadata}

\* what a child process can do: the executable is missing (Popen raises
\* FileNotFoundError), or it exits with a return code and a stdout
ProcResults == [found : BOOLEAN, returncode : {0, 1}, stdout : Texts]

\* run_command with a fault (C22): a failure of the command is not raised
run_command_unchecked(is_ls, proc) ==
    IF ~proc.found THEN [raised |-> "FileNotFoundError", stdout |-> <<>>]
    ELSE [raised |-> "none", stdout |-> proc.stdout]

\* graph.py 98-122: [raised, stdout]
run_command(is_ls, proc) ==
    IF ~proc.found THEN [raised |-> "FileNotFoundError", stdout |-> <<>>]
    ELSE IF ContainsDepsHint(proc.stdout) /\ is_ls
    THEN [raised |-> "CosmosLoadDbtException", stdout |-> <<>>]
    ELSE IF proc.returncode # 0 \/ ContainsError(proc.stdout)
    THEN [raised |-> "CosmosLoadDbtException", stdout |-> <<>>]
    ELSE [raised |-> "none", stdout |-> proc.stdout]

\* values under the cache key that no save_dbt_ls_cache wrote
CorruptValues ==
    {NotJson, JsonNonDict, json_dumps(EmptyDict),
     json_dumps([k \in {"version"} |-> <<"version">>]),
     json_dumps([k \in {"version", "dbt_ls_compressed"} |->
                    IF k = "version" THEN <<"version">> ELSE <<1001>>]),
     json_dumps([k \in {"version", "dbt_ls_compressed"} |->
                    IF k = "version" THEN <<"version">> ELSE <<1001, 1002, 1003, 0>>])}

\* cache.py 92-103: st_mtime of the path, 0 when stat raises FileNotFoundError
_get_timestamp(path) == IF path.exists THEN path.st_mtime ELSE 0

(***************************************************************************)
(* cosmos/cache.py 106-130 on the two modification times (0: no file).     *)
(***************************************************************************)
_get_latest_partial_parse(age_project_partial_parse, age_cosmos_cached_partial_parse_filepath) ==
    IF age_project_partial_parse # 0 /\ age_cosmos_cached_partial_parse_filepath # 0
    THEN IF age_project_partial_parse > age_cosmos_cached_partial_parse_filepath
         THEN "project" ELSE "cache"
    ELSE IF age_project_partial_parse # 0 THEN "project"
    ELSE IF age_cosmos_cached_partial_parse_filepath # 0 THEN "cache"
    ELSE "none"

(***************************************************************************)
(* partial_parse.msgpack.  The decoded document is a value of one of the   *)
(* shapes below; a node record keeps its name and, when it is a dict, what *)
(* it holds under root_path ("absent": no such key, "nil": None).          *)
(*                                                                         *)
(* msgpack: a string is one byte (160 and up), nil is 192, a small int is  *)
(* the int, a map starts with 128 + the number of its entries and an array *)
(* with 144 + the number of its elements; 193 is no msgpack type.          *)
(***************************************************************************)
\* the paths a root_path can name, and the names of the node records
OldPath == "/old/project"
LivePath == "/live/project"
RootPaths == {"", OldPath, LivePath}
NodeNames == <<"model.proj.a", "model.proj.b", "model.proj.c">>

msgpack_str(string) ==
    CASE string = "" -> 160
      [] string = OldPath -> 161
      [] string = LivePath -> 162
      [] string = "/tmp/tmpdir" -> 163
      [] string = "/tmp/nowhere" -> 164
      [] string = "nodes" -> 171
      [] string = "root_path" -> 172
      [] string = "model.proj.a" -> 174
      [] string = "model.proj.b" -> 175
      [] string = "model.proj.c" -> 176
      [] OTHER -> 177

msgpack_is_str(byte) == byte \in 160..177

msgpack_string(byte) ==
    CASE byte = 160 -> ""
      [] byte = 161 -> OldPath
      [] byte = 162 -> LivePath
      [] byte = 163 -> "/tmp/tmpdir"
      [] byte = 164 -> "/tmp/nowhere"
      [] byte = 171 -> "nodes"
      [] byte = 172 -> "root_path"
      [] byte = 174 -> "model.proj.a"
      [] byte = 175 -> "model.proj.b"
      [] byte = 176 -> "model.proj.c"
      [] OTHER -> "?"

\* the decoded documents
IntDocument == [type |-> "int", nodes_type |-> "none", nodes |-> <<>>]
MapDocument(nodes_type, nodes) == [type |-> "map", nodes_type |-> nodes_type, nodes |-> nodes]
\* a node record that is a dict, and one that is a string
DictRecord(name, root_path) == [name |-> name, type |-> "dict", root_path |-> root_path]
StrRecord(name) == [name |-> name, type |-> "str", root_path |-> "absent"]

\* msgpack.packb of a node record: its key and its value
msgpack_pack_record(node) ==
    <<msgpack_str(node.name)>> \o
    (IF node.type # "dict" THEN <<msgpack_str("?")>>
     ELSE IF node.root_path = "absent" THEN <<128>>
     ELSE <<129, msgpack_str("root_path"),
            IF node.root_path = "nil" THEN 192 ELSE msgpack_str(node.root_path)>>)

\* cache.py 184: msgpack.packb(data)
msgpack_packb(data) ==
    IF data.type = "int" THEN <<7>>
    ELSE IF data.nodes_type = "none" THEN <<128>>
    ELSE IF data.nodes_type = "array" THEN <<129, msgpack_str("nodes"), 144>>
    ELSE <<129, msgpack_str("nodes"), 128 + Len(data.nodes)>> \o
         Concat([i \in 1..Len(data.nodes) |-> msgpack_pack_record(data.nodes[i])])

\* n node records off the head of bytes: [ok, nodes, rest]
RECURSIVE msgpack_unpack_records(_, _)
msgpack_unpack_records(bytes, n) ==
    IF n = 0 THEN [ok |-> TRUE, nodes |-> <<>>, rest |-> bytes]
    ELSE IF Len(bytes) < 2 \/ ~msgpack_is_str(bytes[1])
    THEN [ok |-> FALSE, nodes |-> <<>>, rest |-> <<>>]
    ELSE LET name == msgpack_string(bytes[1])
             one == IF msgpack_is_str(bytes[2])
                    THEN [ok |-> TRUE, node |-> StrRecord(name), used |-> 2]
                    ELSE IF bytes[2] = 128
                    THEN [ok |-> TRUE, node |-> DictRecord(name, "absent"), used |-> 2]
                    ELSE IF bytes[2] = 129 /\ Len(bytes) >= 4
                            /\ bytes[3] = msgpack_str("root_path")
                            /\ (bytes[4] = 192 \/ msgpack_is_str(bytes[4]))
                    THEN [ok |-> TRUE,
                          node |-> DictRecord(name, IF bytes[4] = 192 THEN "nil"
                                                    ELSE msgpack_string(bytes[4])),
                          used |-> 4]
                    ELSE [ok |-> FALSE, node |-> StrRecord(name), used |-> 0]
             more == msgpack_unpack_records(SubSeq(bytes, one.used + 1, Len(bytes)), n - 1)
         IN IF ~one.ok \/ ~more.ok THEN [ok |-> FALSE, nodes |-> <<>>, rest |-> <<>>]
            ELSE [ok |-> TRUE, nodes |-> <<one.node>> \o more.nodes, rest |-> more.rest]

\* cache.py 169: msgpack.unpack(f); ok is FALSE when it raises a ValueError (no
\* msgpack type, incomplete input, extra data, a map key that is no string)
msgpack_unpack(bytes) ==
    LET failed == [ok |-> FALSE, data |-> IntDocument]
    IN IF bytes = <<7>> THEN [ok |-> TRUE, data |-> IntDocument]
       ELSE IF bytes = <<128>> THEN [ok |-> TRUE, data |-> MapDocument("none", <<>>)]
       ELSE IF Len(bytes) < 3 \/ bytes[1] # 129 \/ bytes[2] # msgpack_str("nodes") THEN failed
       ELSE IF bytes[3] = 144
       THEN IF Len(bytes) = 3 THEN [ok |-> TRUE, data |-> MapDocument("array", <<>>)]
            ELSE failed
       ELSE IF bytes[3] \notin 128..143 THEN failed
       ELSE LET unpacked == msgpack_unpack_records(SubSeq(bytes, 4, Len(bytes)),
                                                   bytes[3] - 128)
            IN IF ~unpacked.ok \/ unpacked.rest # <<>> THEN failed
               ELSE [ok |-> TRUE, data |-> MapDocument("map", unpacked.nodes)]

\* needs_patch with a fault (C21): a root_path that exists is rewritten too
needs_patch_any_path(expected_filepath, existing_paths) == expected_filepath # ""

\* cache.py 174-181 for one node: what the scan does with it
needs_patch(expected_filepath, existing_paths) ==
    expected_filepath # "" /\ expected_filepath \notin existing_paths

\* cache.py 173-181, the loop: [raised, nodes, should_patch_partial_parse_content]
RECURSIVE patch_nodes(_, _, _, _)
patch_nodes(nodes, project_path, existing_paths, should_patch_partial_parse_content) ==
    IF nodes = <<>>
    THEN [raised |-> "none", nodes |-> <<>>,
          should_patch_partial_parse_content |-> should_patch_partial_parse_content]
    ELSE LET node == Head(nodes)
         IN IF node.type # "dict"
            THEN [raised |-> "AttributeError", nodes |-> nodes,
                  should_patch_partial_parse_content |-> should_patch_partial_parse_content]
            ELSE IF node.root_path \in {"absent", "nil"}
            THEN LET more == patch_nodes(Tail(nodes), project_path, existing_paths,
                                         should_patch_partial_parse_content)
                 IN [more EXCEPT !.nodes = <<node>> \o @]
            ELSE IF needs_patch(node.root_path, existing_paths)
            THEN LET more == patch_nodes(Tail(nodes), project_path, existing_paths, TRUE)
                 IN [more EXCEPT !.nodes = <<[node EXCEPT !.root_path = project_path]>> \o @]
            ELSE [raised |-> "none", nodes |-> nodes,
                  should_patch_partial_parse_content |-> should_patch_partial_parse_content]

\* cache.py 148-186 on the bytes of the file: [raised, returned, rewrote: a
\* root_path was assigned, wrote: the file was written, file: its bytes
\* afterwards]
patch_partial_parse_content(file, project_path, existing_paths) ==
    LET unpacked == msgpack_unpack(file)
        data == unpacked.data
        left(raised, rewrote) ==
            [raised |-> raised, returned |-> FALSE, rewrote |-> rewrote, wrote |-> FALSE,
             file |-> file]
    IN IF ~unpacked.ok THEN left("none", FALSE)
       ELSE IF data.type # "map" THEN left("TypeError", FALSE)
       ELSE IF data.nodes_type = "none" THEN left("KeyError", FALSE)
       ELSE IF data.nodes_type # "map" THEN left("AttributeError", FALSE)
       ELSE LET patched == patch_nodes(data.nodes, project_path, existing_paths, FALSE)
            IN IF patched.raised # "none"
               THEN left(patched.raised, patched.should_patch_partial_parse_content)
               ELSE IF patched.should_patch_partial_parse_content
               THEN [raised |-> "none", returned |-> TRUE, rewrote |-> TRUE, wrote |-> TRUE,
                     file |-> msgpack_packb(MapDocument("map", patched.nodes))]
               ELSE left("none", FALSE)

\* the directories given as project_path; the paths that exist on disk
ProjectPaths == {"/tmp/tmpdir", "/tmp/nowhere"}
ExistingPaths == {LivePath, "/tmp/tmpdir"}

NodeRecords(name) ==
    {StrRecord(name)} \cup
    {DictRecord(name, root_path) :
        root_path \in {"absent", "nil"} \cup RootPaths \cup ProjectPaths}

NodeLists ==
    UNION {{nodes \in [1..n -> UNION {NodeRecords(NodeNames[i]) : i \in 1..n}] :
               \A i \in 1..n : nodes[i].name = NodeNames[i]} : n \in 0..MaxRecords}

Documents ==
    {IntDocument, MapDocument("none", <<>>), MapDocument("array", <<>>)} \cup
    {MapDocument("map", nodes) : nodes \in NodeLists}

\* bytes that msgpack.unpack rejects: no type, incomplete input, extra data
Undecodable == {<<>>, <<193>>, <<129>>, <<128, 7>>}

ArtifactFiles == {msgpack_packb(data) : data \in Documents} \cup Undecodable

\* cache.py 189-207: the artifact is copied to the working directory and
\* patched there, then its manifest is copied when there is one:
\* [raised, partial_parse: the bytes of the copy, manifest: a copy was made]
_copy_partial_parse_to_project(file, project_path, source_manifest) ==
    LET patched == patch_partial_parse_content(file, project_path, ExistingPaths)
    IN [raised |-> patched.raised, partial_parse |-> patched.file,
        manifest |-> patched.raised = "none" /\ source_manifest]

\* graph.py 434-438: what priming the working directory can raise ("none":
\* nothing, also when there is nothing to prime)
StagingResults ==
    {"none"} \cup
    {_copy_partial_parse_to_project(file, "/tmp/tmpdir", source_manifest).raised :
        file \in ArtifactFiles, source_manifest \in BOOLEAN}

(***************************************************************************)
(* The loading strategies of DbtGraph as functions of the instance and of  *)
(* the configuration they read.  Each returns the exception that escapes   *)
(* ("none" when it returns) and the instance it leaves behind.             *)
(***************************************************************************)
\* should_use_dbt_ls_cache with a fault (C6): one gate is enough
should_use_dbt_ls_cache_any(enable_cache, enable_cache_dbt_ls, dbt_ls_cache_key) ==
    enable_cache \/ enable_cache_dbt_ls \/ dbt_ls_cache_key

\* graph.py 369-372
should_use_dbt_ls_cache(enable_cache, enable_cache_dbt_ls, dbt_ls_cache_key) ==
    enable_cache /\ enable_cache_dbt_ls /\ dbt_ls_cache_key

\* graph.py 393: the test that makes a cache hit
is_cache_hit(cache_dict, current_version) ==
    /\ HasKey(cache_dict, "dbt_ls")
    /\ cache_dict["dbt_ls"] # <<>>
    /\ HasKey(cache_dict, "version")
    /\ ~was_project_modified(cache_dict["version"], current_version)

\* graph.py 374-405: [raised, returned: the bool returned, read: the store was
\* read, g]
load_via_dbt_ls_cache(g, c, value, dir) ==
    IF ~should_use_dbt_ls_cache(c.enable_cache, c.enable_cache_dbt_ls, c.cache_identifier)
    THEN [raised |-> "none", returned |-> FALSE, read |-> FALSE, g |-> g]
    ELSE IF ~c.project_path
    THEN [raised |-> "CosmosLoadDbtException", returned |-> FALSE, read |-> FALSE, g |-> g]
    ELSE LET got == get_dbt_ls_cache(value)
             current_version ==
                 _calculate_dbt_ls_cache_current_version(c.cache_identifier, dir,
                                                         c.dbt_ls_cache_key_args)
         IN IF got.raised # "none"
            THEN [raised |-> got.raised, returned |-> FALSE, read |-> TRUE, g |-> g]
            ELSE IF got.dict = EmptyDict
            THEN [raised |-> "none", returned |-> FALSE, read |-> TRUE, g |-> g]
            ELSE IF is_cache_hit(got.dict, current_version)
            THEN LET parsed == parse_dbt_ls_output(c.project_path, got.dict["dbt_ls"])
                     g1 == [g EXCEPT !.load_method = "dbt_ls_cache"]
                 IN IF parsed.raised # "none"
                    THEN [raised |-> parsed.raised, returned |-> FALSE, read |-> TRUE,
                          g |-> g1]
                    ELSE [raised |-> "none", returned |-> TRUE, read |-> TRUE,
                          g |-> [g1 EXCEPT !.objects = parsed.objects,
                                           !.nodes = parsed.nodes,
                                           !.filtered_nodes = parsed.nodes,
                                           !.aliased = TRUE]]
            ELSE [raised |-> "none", returned |-> FALSE, read |-> TRUE, g |-> g]

\* cosmos.dbt.selector.select_nodes, an external collaborator: the entries
\* whose keys the select and exclude expressions keep, in a new dict
select_nodes(nodes, keep) == SelectSeq(nodes, LAMBDA e : e.key \in keep)

\* the models LegacyDbtProject finds: name, type and upstream model names
LegacyModels ==
    {<<>>,
     <<[name |-> <<"a">>, type |-> "model", upstream_models |-> <<>>]>>,
     <<[name |-> <<"a">>, type |-> "model", upstream_models |-> <<>>],
       [name |-> <<"t">>, type |-> "test", upstream_models |-> << <<"a">> >>]>>}

\* graph.py 535-553, the loop
RECURSIVE custom_nodes(_, _, _)
custom_nodes(models, objects, nodes) ==
    IF models = <<>> THEN [objects |-> objects, nodes |-> nodes]
    ELSE LET model == Head(models)
             node == DbtNode(<<model.type, "proj">> \o model.name, model.type,
                             model.upstream_models)
         IN custom_nodes(Tail(models), Append(objects, node),
                         DictSet(nodes, model.name, Len(objects) + 1))

\* graph.py 503-561: [raised, g]
load_via_custom_parser(g, c, models, keep) ==
    LET g1 == [g EXCEPT !.load_method = "custom"]
        built == custom_nodes(models, <<>>, <<>>)
    IN IF c.selector THEN [raised |-> "CosmosLoadDbtException", g |-> g1]
       ELSE IF ~c.render_project_path \/ ~c.execution_project_path
       THEN [raised |-> "CosmosLoadDbtException", g |-> g1]
       ELSE [raised |-> "none",
             g |-> [g1 EXCEPT !.objects = built.objects,
                              !.nodes = built.nodes,
                              !.filtered_nodes = select_nodes(built.nodes, keep),
                              !.aliased = FALSE]]

\* the merged nodes, sources and exposures of a manifest document
ManifestEntry(unique_id, resource_type, depends_on, fields) ==
    [key |-> unique_id,
     doc |-> [k \in fields |->
                 CASE k = "resource_type" -> <<resource_type>>
                   [] k = "depends_on" -> depends_on
                   [] OTHER -> <<>>]]
ManifestFields == {"resource_type", "depends_on", "original_file_path", "tags", "config"}
Manifests ==
    {<<>>,
     <<ManifestEntry(ModelId, "model", <<>>, ManifestFields)>>,
     <<ManifestEntry(ModelId, "model", <<>>, ManifestFields),
       ManifestEntry(TestId, "test", <<ModelId>>, ManifestFields)>>,
     <<ManifestEntry(ModelId, "model", <<>>, ManifestFields \ {"tags"})>>}

\* graph.py 593-603, the loop: [raised, objects, nodes]
RECURSIVE manifest_nodes(_, _, _)
manifest_nodes(resources, objects, nodes) ==
    IF resources = <<>> THEN [raised |-> "none", objects |-> objects, nodes |-> nodes]
    ELSE LET node_dict == Head(resources).doc
         IN IF \E k \in {"resource_type", "original_file_path", "tags", "config"} :
                  ~HasKey(node_dict, k)
            THEN [raised |-> "KeyError", objects |-> <<>>, nodes |-> <<>>]
            ELSE LET node == DbtNode(Head(resources).key, node_dict["resource_type"][1],
                                     DictGet(node_dict, "depends_on", <<>>))
                 IN manifest_nodes(Tail(resources), Append(objects, node),
                                   DictSet(nodes, node.unique_id, Len(objects) + 1))

\* graph.py 563-611: [raised, g]
load_from_dbt_manifest(g, c, manifest, keep) ==
    LET g1 == [g EXCEPT !.load_method = "dbt_manifest"]
        built == manifest_nodes(manifest, <<>>, <<>>)
    IN IF c.selector THEN [raised |-> "CosmosLoadDbtException", g |-> g1]
       ELSE IF ~c.manifest_available THEN [raised |-> "CosmosLoadDbtException", g |-> g1]
       ELSE IF ~c.execution_project_path
       THEN [raised |-> "CosmosLoadDbtException", g |-> g1]
       ELSE IF built.raised # "none" THEN [raised |-> built.raised, g |-> g1]
       ELSE [raised |-> "none",
             g |-> [g1 EXCEPT !.objects = built.objects,
                              !.nodes = built.nodes,
                              !.filtered_nodes = select_nodes(built.nodes, keep),
                              !.aliased = FALSE]]

\* graph.py 478-501: [raised, g]
load_via_dbt_ls_file(g, c, dbt_ls_output) ==
    LET g1 == [g EXCEPT !.load_method = "dbt_ls_file"]
        parsed == parse_dbt_ls_output(c.render_project_path, dbt_ls_output)
    IN IF ~c.dbt_ls_file_available THEN [raised |-> "CosmosLoadDbtException", g |-> g1]
       ELSE IF ~c.render_project_path THEN [raised |-> "CosmosLoadDbtException", g |-> g1]
       ELSE IF parsed.raised # "none" THEN [raised |-> parsed.raised, g |-> g1]
       ELSE [raised |-> "none",
             g |-> [g1 EXCEPT !.objects = parsed.objects,
                              !.nodes = parsed.nodes,
                              !.filtered_nodes = parsed.nodes,
                              !.aliased = TRUE]]

\* graph.py 311-331: the strategy load() calls first
load_target(method, manifest_available, execution_mode, profile_config) ==
    IF method # "automatic" THEN method
    ELSE IF manifest_available THEN "dbt_manifest"
    ELSE IF execution_mode = "local" /\ profile_config THEN "dbt_ls"
    ELSE "custom"

\* falls_back_to_custom with a fault (C8): the handler catches every exception
falls_back_to_custom_on_any(method, raised) == method = "automatic"

\* graph.py 324-327: the exceptions of load_via_dbt_ls that load() handles by
\* calling load_via_custom_parser
falls_back_to_custom(method, raised) ==
    method = "automatic" /\ raised = "FileNotFoundError"

(***************************************************************************)
(* State.                                                                  *)
(***************************************************************************)
VARIABLES
    store,          \* the Airflow Variable under dbt_ls_cache_key
    store_origin,   \* history: the load that saved the stored record
    project_dir,    \* the files of the dbt project directory
    cache_dir,      \* the shared cache directory: which files its target/ holds
    pc,             \* where the load() call in progress stands
    graph,          \* the DbtGraph instance
    call,           \* the configuration the call has read, its locals and what it did
    unit            \* a function or method run on its own: its arguments and its result

vars == <<store, store_origin, project_dir, cache_dir, pc, graph, call, unit>>

\* a call that has read nothing and done nothing yet
NoCall ==
    [method |-> "none", execution_mode |-> "local",
     manifest_available |-> FALSE, profile_config |-> FALSE,
     enable_cache |-> FALSE, enable_cache_dbt_ls |-> FALSE, cache_identifier |-> FALSE,
     project_path |-> FALSE, render_project_path |-> FALSE,
     execution_project_path |-> FALSE, selector |-> FALSE,
     dbt_ls_file_available |-> FALSE, dbt_ls_cache_key_args |-> <<>>,
     partial_parse |-> FALSE,
     stdout |-> <<>>, tool_saw |-> <<>>,
     outcome |-> "none", cache |-> "none", store_read |-> FALSE, store_written |-> FALSE,
     tool_invoked |-> FALSE, ls_invoked |-> FALSE, tool_error |-> FALSE,
     assigned |-> FALSE, custom_ran |-> FALSE,
     tmpdir |-> "none", staging_error |-> FALSE,
     tmp_artifact |-> FALSE, harvested |-> FALSE]

\* no function is run on its own
NoUnit == [name |-> "none"]

\* history of a stored record: saved: a load saved it; saw: the fingerprint of
\* what the tool read to print its payload; returned: that load returned; graph:
\* the instance it left
NoOrigin == [saved |-> FALSE, saw |-> <<>>, returned |-> FALSE, graph |-> NewGraph]

Init ==
    /\ store = Absent
    /\ store_origin = NoOrigin
    /\ project_dir = [f \in ProjectFiles |-> <<>>]
    /\ cache_dir = [partial_parse |-> FALSE, manifest |-> FALSE]
    /\ pc = "idle"
    /\ graph = NewGraph
    /\ call = NoCall
    /\ unit = NoUnit

\* graph.py 331-333: the strategy has returned or raised; load() updates the
\* dependencies and returns, or lets the exception escape
Complete(c, raised, g) ==
    /\ pc' = "done"
    /\ graph' = IF raised = "none" THEN update_node_dependency(g) ELSE g
    /\ call' = [c EXCEPT !.outcome = IF raised = "none" THEN "returned" ELSE raised]

\* graph.py 326-327: load_via_custom_parser run by the handler of load()
FallBackToCustom(c, g) ==
    \E selector, render_project_path, execution_project_path \in BOOLEAN,
       models \in LegacyModels, keep \in SUBSET {<<"a">>, <<"t">>} :
        /\ (render_project_path \/ execution_project_path) => c.project_path
        \* what graph.py 516-524 does not read stays unread
        /\ selector => ~render_project_path
        /\ ~render_project_path => ~execution_project_path
        /\ ~execution_project_path => models = <<>> /\ keep = {}
        /\ LET c1 == [c EXCEPT !.selector = selector,
                               !.render_project_path = render_project_path,
                               !.execution_project_path = execution_project_path,
                               !.custom_ran = TRUE]
               r == load_via_custom_parser(g, c1, models, keep)
           IN Complete([c1 EXCEPT !.assigned = (r.raised = "none")], r.raised, r.g)

\* load_via_dbt_ls ends: it returns ("none") or an exception escapes it
Raise(c, raised, g) ==
    IF falls_back_to_custom(c.method, raised)
    THEN FallBackToCustom(c, g)
    ELSE Complete(c, raised, g)

(***************************************************************************)
(* load(method) with the strategies that touch neither the tool nor the    *)
(* store: one step each.                                                   *)
(***************************************************************************)
LoadFromManifest ==
    /\ pc = "idle"
    /\ \E method \in {"dbt_manifest", "automatic"},
          manifest_available, selector, execution_project_path \in BOOLEAN,
          manifest \in Manifests, keep \in SUBSET {ModelId, TestId} :
        /\ load_target(method, manifest_available, "local", FALSE) = "dbt_manifest"
        \* what graph.py 574-588 does not read stays unread
        /\ selector => method = "automatic" \/ ~manifest_available
        /\ (selector \/ ~manifest_available) => ~execution_project_path
        /\ ~execution_project_path => manifest = <<>> /\ keep = {}
        /\ LET c == [NoCall EXCEPT !.method = method,
                                   !.manifest_available = manifest_available,
                                   !.selector = selector,
                                   !.execution_project_path = execution_project_path]
               r == load_from_dbt_manifest(NewGraph, c, manifest, keep)
           IN Complete([c EXCEPT !.assigned = (r.raised = "none")], r.raised, r.g)
    /\ UNCHANGED <<store, store_origin, project_dir, cache_dir, unit>>

LoadViaCustomParser ==
    /\ pc = "idle"
    /\ \E method \in {"custom", "automatic"}, execution_mode \in {"local", "kubernetes"},
          profile_config, selector, render_project_path, execution_project_path \in BOOLEAN,
          models \in LegacyModels, keep \in SUBSET {<<"a">>, <<"t">>} :
        /\ load_target(method, FALSE, execution_mode, profile_config) = "custom"
        /\ method = "custom" => execution_mode = "local" /\ ~profile_config
        /\ execution_mode # "local" => ~profile_config
        \* what graph.py 516-524 does not read stays unread
        /\ selector => ~render_project_path
        /\ ~render_project_path => ~execution_project_path
        /\ ~execution_project_path => models = <<>> /\ keep = {}
        /\ LET c == [NoCall EXCEPT !.method = method,
                                   !.execution_mode = execution_mode,
                                   !.profile_config = profile_config,
                                   !.selector = selector,
                                   !.render_project_path = render_project_path,
                                   !.execution_project_path = execution_project_path,
                                   !.custom_ran = TRUE]
               r == load_via_custom_parser(NewGraph, c, models, keep)
           IN Complete([c EXCEPT !.assigned = (r.raised = "none")], r.raised, r.g)
    /\ UNCHANGED <<store, store_origin, project_dir, cache_dir, unit>>

LoadViaDbtLsFile ==
    /\ pc = "idle"
    /\ \E dbt_ls_file_available, render_project_path \in BOOLEAN, dbt_ls_output \in OkTexts :
        \* what graph.py 490-496 does not read stays unread
        /\ ~dbt_ls_file_available => ~render_project_path
        /\ ~render_project_path => dbt_ls_output = <<>>
        /\ LET c == [NoCall EXCEPT !.method = "dbt_ls_file",
                                !.dbt_ls_file_available = dbt_ls_file_available,
                                !.render_project_path = render_project_path]
               r == load_via_dbt_ls_file(NewGraph, c, dbt_ls_output)
           IN Complete([c EXCEPT !.assigned = (r.raised = "none")], r.raised, r.g)
    /\ UNCHANGED <<store, store_origin, project_dir, cache_dir, unit>>

(***************************************************************************)
(* load(method) through dbt ls: load_via_dbt_ls (graph.py 364-367) and     *)
(* load_via_dbt_ls_cache called by load() itself.  Other processes run     *)
(* between the steps below.                                                *)
(***************************************************************************)
\* graph.py 319-331, 364-366, 374-405: load() up to the return of
\* load_via_dbt_ls_cache
LoadViaDbtLsCache ==
    /\ pc = "idle"
    /\ \E method \in {"dbt_ls", "dbt_ls_cache", "automatic"},
          profile_config, enable_cache, enable_cache_dbt_ls, cache_identifier,
          project_path \in BOOLEAN,
          dbt_ls_cache_key_args \in CmdArgLists \cup {<<>>} :
        /\ load_target(method, FALSE, "local", profile_config) \in {"dbt_ls", "dbt_ls_cache"}
        /\ method = "dbt_ls_cache" => ~profile_config
        \* what the conjunction of graph.py 372 does not evaluate stays unread
        /\ ~enable_cache => ~enable_cache_dbt_ls
        /\ ~enable_cache_dbt_ls => ~cache_identifier
        /\ (dbt_ls_cache_key_args # <<>>) =
              should_use_dbt_ls_cache(enable_cache, enable_cache_dbt_ls, cache_identifier)
        /\ LET c == [NoCall EXCEPT !.method = method,
                                   !.profile_config = profile_config,
                                   !.enable_cache = enable_cache,
                                   !.enable_cache_dbt_ls = enable_cache_dbt_ls,
                                   !.cache_identifier = cache_identifier,
                                   !.project_path = project_path,
                                   !.dbt_ls_cache_key_args = dbt_ls_cache_key_args]
               r == load_via_dbt_ls_cache(NewGraph, c, store, project_dir)
               c1 == [c EXCEPT !.store_read = r.read,
                               !.assigned = r.returned,
                               !.cache = IF r.raised # "none" THEN "raised"
                                         ELSE IF r.returned THEN "hit" ELSE "miss"]
           IN IF r.raised # "none" THEN Raise(c1, r.raised, r.g)
              ELSE IF r.returned \/ method = "dbt_ls_cache" THEN Complete(c1, "none", r.g)
              ELSE /\ pc' = "stage"
                   /\ call' = c1
                   /\ graph' = r.g
    /\ UNCHANGED <<store, store_origin, project_dir, cache_dir, unit>>

\* TemporaryDirectory with a fault (C13): only a block that ends normally
\* removes the directory
tmpdir_after_with_on_return(raised) == IF raised = "none" THEN "removed" ELSE "exists"

\* graph.py 426: the with statement is left, by its end or by an exception:
\* TemporaryDirectory.__exit__ removes the directory
tmpdir_after_with(raised) == "removed"

\* graph.py 416-432: load_via_dbt_ls_without_cache up to the working directory
StageWorkingDir ==
    /\ pc = "stage"
    /\ LET g == [graph EXCEPT !.load_method = "dbt_ls"]
       IN IF ~call.project_path \/ ~call.profile_config
          THEN Raise(call, "CosmosLoadDbtException", g)
          ELSE /\ pc' = "ls"
               /\ call' = [call EXCEPT !.tmpdir = "exists"]
               /\ graph' = g
    /\ UNCHANGED <<store, store_origin, project_dir, cache_dir, unit>>

\* the results run_command can have
CommandResults(is_ls) == {run_command(is_ls, proc) : proc \in ProcResults}

\* graph.py 434-468, 338-348: the working directory is primed, dbt deps runs
\* when asked for, then run_command of dbt ls.  partial_parse stands for
\* "self.project.partial_parse and self.cache_dir".  The working directory is
\* private to the call: what it holds is drawn where the code looks at it
\* (FinishDbtLs)
RunDbtLs ==
    /\ pc = "ls"
    /\ \E partial_parse, dbt_deps \in BOOLEAN :
        \E staging \in IF partial_parse THEN StagingResults ELSE {"none"},
           deps \in IF dbt_deps THEN {r.raised : r \in CommandResults(FALSE)} ELSE {"none"} :
          LET left(raised) == [call EXCEPT !.tmpdir = tmpdir_after_with(raised)]
              c == [left(deps) EXCEPT !.tool_invoked = dbt_deps /\ deps # "FileNotFoundError",
                                      !.tool_error = (deps = "CosmosLoadDbtException")]
          IN IF staging # "none"
             THEN /\ ~dbt_deps
                  /\ Raise([left(staging) EXCEPT !.partial_parse = TRUE,
                                                 !.staging_error = TRUE],
                           staging, graph)
             ELSE IF deps # "none" THEN ~partial_parse /\ Raise(c, deps, graph)
             ELSE \E ran \in CommandResults(TRUE) :
                    IF ran.raised # "none"
                    THEN ~partial_parse /\ Raise([left(ran.raised) EXCEPT
                                   !.ls_invoked = ran.raised # "FileNotFoundError",
                                   !.tool_invoked = dbt_deps \/ ran.raised # "FileNotFoundError",
                                   !.tool_error = (ran.raised = "CosmosLoadDbtException")],
                               ran.raised, graph)
                    ELSE /\ pc' = "ran"
                         /\ call' =
                               [call EXCEPT
                                  !.partial_parse = partial_parse,
                                  !.tool_invoked = TRUE,
                                  !.ls_invoked = TRUE,
                                  !.stdout = ran.stdout,
                                  !.tool_saw =
                                      _calculate_dbt_ls_cache_current_version(
                                          call.cache_identifier, project_dir,
                                          call.dbt_ls_cache_key_args)]
                         /\ graph' = graph
    /\ UNCHANGED <<store, store_origin, project_dir, cache_dir, unit>>

\* graph.py 434-438 with cache.py 189-207, then the files the tool writes:
\* which files the working directory holds when dbt ls has run,
\* <<partial parse, manifest>>
WorkingDirs(partial_parse) ==
    IF ~partial_parse THEN {<<FALSE, FALSE>>}
    ELSE {<<primed[1] \/ wrote[1], primed[2] \/ wrote[2]>> :
             primed \in {IF latest = "none" THEN <<FALSE, FALSE>>
                         ELSE IF latest = "cache" THEN <<TRUE, cache_dir.manifest>>
                         ELSE <<TRUE, project_manifest>> :
                            <<latest, project_manifest>> \in
                               {<<_get_latest_partial_parse(age_project, age_cache), m>> :
                                   age_project \in 0..MaxAge,
                                   age_cache \in IF cache_dir.partial_parse
                                                 THEN 1..MaxAge ELSE {0},
                                   m \in BOOLEAN}},
             wrote \in BOOLEAN \X BOOLEAN}

\* cache.py 133-145: [raised, dir: the shared cache directory afterwards]
_update_partial_parse_cache(tmp_manifest, dir) ==
    IF tmp_manifest
    THEN [raised |-> "none", dir |-> [partial_parse |-> TRUE, manifest |-> TRUE]]
    ELSE [raised |-> "FileNotFoundError", dir |-> [dir EXCEPT !.partial_parse = TRUE]]

\* the harvest with a fault (C24): the working directory is not looked at
harvests_unseen(partial_parse, partial_parse_file_exists) == partial_parse

\* graph.py 473-475: the conditions under which the working directory is
\* harvested
harvests(partial_parse, partial_parse_file_exists) ==
    partial_parse /\ partial_parse_file_exists

\* graph.py 358-362, 470-476, 333: save, parse, assign, harvest, and the end of
\* load()
FinishDbtLs ==
    /\ pc = "ran"
    /\ LET partial_parse == call.partial_parse IN
        \E tmp \in WorkingDirs(partial_parse) :
          LET use == should_use_dbt_ls_cache(call.enable_cache, call.enable_cache_dbt_ls,
                                             call.cache_identifier)
              version == _calculate_dbt_ls_cache_current_version(
                             call.cache_identifier, project_dir, call.dbt_ls_cache_key_args)
              parsed == parse_dbt_ls_output(call.project_path, call.stdout)
              harvest == parsed.raised = "none" /\ harvests(partial_parse, tmp[1])
              updated == _update_partial_parse_cache(tmp[2], cache_dir)
              c == [call EXCEPT !.store_written = use,
                                !.assigned = (parsed.raised = "none"),
                                !.tmp_artifact = tmp[1],
                                !.harvested = harvest]
              g == IF parsed.raised # "none" THEN graph
                   ELSE [graph EXCEPT !.objects = parsed.objects,
                                      !.nodes = parsed.nodes,
                                      !.filtered_nodes = parsed.nodes,
                                      !.aliased = TRUE]
              raised == IF parsed.raised # "none" THEN parsed.raised
                        ELSE IF harvest THEN updated.raised ELSE "none"
          IN /\ IF use
                THEN \E airflow_metadata \in AirflowMetadatas :
                        /\ store' = save_dbt_ls_cache(call.stdout, version, airflow_metadata)
                        /\ store_origin' =
                              [saved |-> TRUE, saw |-> call.tool_saw,
                               returned |-> (raised = "none"),
                               graph |-> IF raised = "none" THEN update_node_dependency(g)
                                         ELSE NewGraph]
                ELSE UNCHANGED <<store, store_origin>>
             /\ cache_dir' = IF harvest THEN updated.dir ELSE cache_dir
             /\ Raise([c EXCEPT !.tmpdir = tmpdir_after_with(raised)], raised, g)
    /\ UNCHANGED <<project_dir, unit>>

(***************************************************************************)
(* The caller takes the result; the next load() is on a new instance.      *)
(***************************************************************************)
Return ==
    /\ pc = "done"
    /\ pc' = "idle"
    /\ call' = NoCall
    /\ graph' = NewGraph
    /\ UNCHANGED <<store, store_origin, project_dir, cache_dir, unit>>

(***************************************************************************)
(* Other processes.  A load reads the project directory when it looks the  *)
(* cache up, when dbt ls runs and when it saves; it reads the store when   *)
(* it looks the cache up.                                                  *)
(***************************************************************************)
\* the project directory is edited
ModifyProject ==
    /\ pc \in {"idle", "ls", "ran"}
    /\ \E dir \in ProjectDirs \ {project_dir} : project_dir' = dir
    /\ UNCHANGED <<store, store_origin, cache_dir, pc, graph, call, unit>>

\* the Variable is deleted (cache.py 342) or overwritten from outside
ExternalStoreWrite ==
    /\ pc = "idle"
    /\ \E value \in CorruptValues \cup {Absent} : store' = value
    /\ store' # store
    /\ store_origin' = NoOrigin
    /\ UNCHANGED <<project_dir, cache_dir, pc, graph, call, unit>>

Next ==
    \/ LoadFromManifest
    \/ LoadViaCustomParser
    \/ LoadViaDbtLsFile
    \/ LoadViaDbtLsCache
    \/ StageWorkingDir
    \/ RunDbtLs
    \/ FinishDbtLs
    \/ Return
    \/ ModifyProject
    \/ ExternalStoreWrite

Spec == Init /\ [][Next]_vars

(***************************************************************************)
(* update_node_dependency run on its own, on every instance a strategy can *)
(* leave: the nodes of a manifest or of a dbt ls output in every order of  *)
(* the document, the tests with every list of dependencies, a dependency   *)
(* on a node that is not in the graph included, and every selection.       *)
(***************************************************************************)
Test2Id == <<"test", "proj", "u">>
DanglingId == <<"model", "proj", "gone">>
LoadedIds == {ModelId, TestId, Test2Id}

DependsOnLists == SeqsUpTo(LoadedIds \cup {DanglingId}, MaxDeps)

\* graph.py 593-611, 470-471: nodes in the order of the document, filtered_nodes
\* what select_nodes keeps of it, or the very dict nodes is (dbt ls)
LoadedGraph(order, depends_on, keep, aliased) ==
    LET nodes == [i \in 1..Len(order) |-> [key |-> order[i], obj |-> i]]
    IN [objects |-> [i \in 1..Len(order) |->
                        DbtNode(order[i], order[i][1],
                                IF order[i][1] = "test" THEN depends_on[order[i]]
                                ELSE <<>>)],
        nodes |-> nodes,
        filtered_nodes |-> IF aliased THEN nodes ELSE select_nodes(nodes, keep),
        aliased |-> aliased,
        load_method |-> IF aliased THEN "dbt_ls" ELSE "dbt_manifest"]

LoadedGraphs ==
    {LoadedGraph(order, depends_on, keep, aliased) :
        order \in Orders(LoadedIds),
        depends_on \in [{TestId, Test2Id} -> DependsOnLists],
        keep \in SUBSET LoadedIds,
        aliased \in BOOLEAN}

\* the other variables while a function runs on its own
MainIdle ==
    /\ store = Absent
    /\ store_origin = NoOrigin
    /\ project_dir = [f \in ProjectFiles |-> <<>>]
    /\ cache_dir = [partial_parse |-> FALSE, manifest |-> FALSE]
    /\ pc = "idle"
    /\ graph = NewGraph
    /\ call = NoCall

main_vars == <<store, store_origin, project_dir, cache_dir, pc, graph, call>>

InitUpdateNodeDependency ==
    /\ MainIdle
    /\ unit \in {[name |-> "update_node_dependency", done |-> FALSE,
                  loaded |-> g, self |-> g] : g \in LoadedGraphs}

\* graph.py 333, 613-625
UpdateNodeDependency ==
    /\ unit.name = "update_node_dependency" /\ ~unit.done
    /\ unit' = [unit EXCEPT !.done = TRUE, !.self = update_node_dependency(unit.self)]
    /\ UNCHANGED main_vars

SpecUpdateNodeDependency ==
    InitUpdateNodeDependency /\ [][UpdateNodeDependency]_vars

(***************************************************************************)
(* patch_partial_parse_content run on its own, twice with the same         *)
(* arguments, on every artifact file: documents of every shape, with up to *)
(* MaxRecords node records, and bytes that are no msgpack document.        *)
(***************************************************************************)
InitPatchPartialParseContent ==
    /\ MainIdle
    /\ unit \in {[name |-> "patch_partial_parse_content", original |-> file, file |-> file,
                  project_path |-> project_path, runs |-> <<>>] :
                    file \in ArtifactFiles, project_path \in ProjectPaths}

\* cache.py 148-186: one call; runs keeps what each call did
PatchPartialParseContent ==
    /\ unit.name = "patch_partial_parse_content" /\ Len(unit.runs) < 2
    /\ LET run == patch_partial_parse_content(unit.file, unit.project_path, ExistingPaths)
       IN unit' = [unit EXCEPT !.file = run.file, !.runs = Append(@, run)]
    /\ UNCHANGED main_vars

SpecPatchPartialParseContent ==
    InitPatchPartialParseContent /\ [][PatchPartialParseContent]_vars

(***************************************************************************)
(* delete_unused_dbt_ls_cache run on its own, on every content of the      *)
(* Variable table (records that save_dbt_ls_cache writes, with every       *)
(* airflow_metadata a DbtGraph can have, and a Variable that is no cache)  *)
(* and of the DagRun table.  Times are numbers; the call is made at Now.   *)
(***************************************************************************)
\* cache.py 27, 73-74: keys with VAR_KEY_CACHE_PREFIX, and another Variable
CacheKeys == {<<"cosmos_cache__", "dag_a">>, <<"cosmos_cache__", "dag_b__group">>}
OtherKeys == {<<"my_variable">>}
startswith_prefix(key) == key[1] = "cosmos_cache__"

\* the dags, and dag_id as _get_airflow_metadata gives it (None: "null")
DagIds == {<<"dag_a">>, <<"dag_b">>}
GcMetadatas ==
    {[DagMetadata EXCEPT !["dag_id"] = dag_id] : dag_id \in DagIds \cup {<<"null">>}}
    \cup {EmptyDict}

\* the Variable table: the values under the keys it holds
VariableTables ==
    UNION {[keys -> {save_dbt_ls_cache(<<>>, <<"version">>, airflow_metadata) :
                        airflow_metadata \in GcMetadatas}] :
              keys \in SUBSET (CacheKeys \cup OtherKeys)}

\* the DagRun table: the execution dates of the runs of every dag
DagRunTables == [DagIds -> SUBSET (0..MaxDate)]
Now == MaxDate + 1

\* cache.py 331-338: the latest run of the dag; {} when it has none
last_dag_run(dag_runs, dag_id) ==
    IF dag_id \notin DOMAIN dag_runs THEN {}
    ELSE {date \in dag_runs[dag_id] : \A other \in dag_runs[dag_id] : other <= date}

\* cache.py 339
is_unused(last_run, now, max_age_last_usage) ==
    \E execution_date \in last_run : execution_date < now - max_age_last_usage

\* cache.py 316-348: [raised, returned: deleted_cosmos_variables, variables: the
\* table afterwards]
delete_unused_dbt_ls_cache(variables, dag_runs, now, max_age_last_usage) ==
    LET cosmos_keys == {key \in DOMAIN variables : startswith_prefix(key)}
        var_value(key) == variables[key].doc
        dag_ids == {var_value(key)["dag_id"] : key \in cosmos_keys}
        cosmos_dags_ids ==
            [dag_id \in dag_ids |-> {key \in cosmos_keys : var_value(key)["dag_id"] = dag_id}]
        deleted ==
            UNION {cosmos_dags_ids[dag_id] :
                      dag_id \in {d \in dag_ids :
                                     is_unused(last_dag_run(dag_runs, d), now,
                                               max_age_last_usage)}}
    IN IF \E key \in cosmos_keys : ~HasKey(var_value(key), "dag_id")
       THEN [raised |-> "KeyError", returned |-> 0, variables |-> variables]
       ELSE [raised |-> "none", returned |-> Cardinality(deleted),
             variables |-> [key \in DOMAIN variables \ deleted |-> variables[key]]]

InitDeleteUnusedDbtLsCache ==
    /\ MainIdle
    /\ unit \in {[name |-> "delete_unused_dbt_ls_cache", done |-> FALSE,
                  all_variables |-> variables, variables |-> variables,
                  dag_runs |-> dag_runs, max_age_last_usage |-> max_age_last_usage,
                  raised |-> "none", returned |-> 0] :
                    variables \in VariableTables, dag_runs \in DagRunTables,
                    max_age_last_usage \in 1..Now}

DeleteUnusedDbtLsCache ==
    /\ unit.name = "delete_unused_dbt_ls_cache" /\ ~unit.done
    /\ LET run == delete_unused_dbt_ls_cache(unit.variables, unit.dag_runs, Now,
                                             unit.max_age_last_usage)
       IN unit' = [unit EXCEPT !.done = TRUE, !.variables = run.variables,
                               !.raised = run.raised, !.returned = run.returned]
    /\ UNCHANGED main_vars

SpecDeleteUnusedDbtLsCache ==
    InitDeleteUnusedDbtLsCache /\ [][DeleteUnusedDbtLsCache]_vars

(***************************************************************************)
(* _calculate_dbt_ls_cache_current_version run on its own, twice: each     *)
(* call on a project directory of up to two files and a list of up to two  *)
(* arguments, with a listing order of os.walk, a modification time of the  *)
(* files and a cache identifier.                                           *)
(***************************************************************************)
FingerprintDirs == UNION {[files -> {<<>>, <<7>>, <<8>>}] : files \in SUBSET {1, 2}}
FingerprintArgs == SeqsUpTo({<<>>, <<1>>}, 2)

InitCalculateCurrentVersion ==
    /\ MainIdle
    /\ unit = [name |-> "_calculate_dbt_ls_cache_current_version", calls |-> <<>>]

\* cache.py 238-260: one call; calls keeps the arguments and the result
CalculateCurrentVersion ==
    /\ unit.name = "_calculate_dbt_ls_cache_current_version" /\ Len(unit.calls) < 2
    /\ \E project_dir_ \in FingerprintDirs, cmd_args \in FingerprintArgs,
          st_mtime \in 1..2, cache_identifier \in {"dag_a", "dag_b"} :
         \E filepaths \in os_walk(project_dir_) :
            unit' = [unit EXCEPT !.calls =
                        Append(@, [project_dir |-> project_dir_, cmd_args |-> cmd_args,
                                   filepaths |-> filepaths, st_mtime |-> st_mtime,
                                   cache_identifier |-> cache_identifier,
                                   version |-> version_of_listing(cache_identifier,
                                                                  filepaths, st_mtime,
                                                                  project_dir_, cmd_args)])]
    /\ UNCHANGED main_vars

SpecCalculateCurrentVersion ==
    InitCalculateCurrentVersion /\ [][CalculateCurrentVersion]_vars

(***************************************************************************)
(* _get_latest_partial_parse run on its own, on the partial parse file of  *)
(* the project directory and the one of the cache directory: each exists   *)
(* or not, with a modification time from the epoch (0) on.                 *)
(***************************************************************************)
MaxMtime == 7
PartialParseFiles ==
    {[exists |-> FALSE, st_mtime |-> 0]} \cup
    {[exists |-> TRUE, st_mtime |-> t] : t \in 0..MaxMtime}

InitGetLatestPartialParse ==
    /\ MainIdle
    /\ \E project_partial_parse_path \in PartialParseFiles,
          cosmos_cached_partial_parse_filepath \in PartialParseFiles :
         unit = [name |-> "_get_latest_partial_parse",
                 project_partial_parse_path |-> project_partial_parse_path,
                 cosmos_cached_partial_parse_filepath |-> cosmos_cached_partial_parse_filepath,
                 called |-> FALSE, returned |-> "none"]

\* cache.py 106-130
GetLatestPartialParse ==
    /\ unit.name = "_get_latest_partial_parse" /\ ~unit.called
    /\ unit' = [unit EXCEPT
                   !.called = TRUE,
                   !.returned = _get_latest_partial_parse(
                                    _get_timestamp(unit.project_partial_parse_path),
                                    _get_timestamp(unit.cosmos_cached_partial_parse_filepath))]
    /\ UNCHANGED main_vars

SpecGetLatestPartialParse == InitGetLatestPartialParse /\ [][GetLatestPartialParse]_vars

(***************************************************************************)
(* Two load() calls through dbt ls that run at the same time, in two       *)
(* processes, on DbtGraph instances with the same cache key, the cache     *)
(* enabled, a project path and a profile.  The instances differ in their   *)
(* airflow_metadata at most; the project directory is edited meanwhile.    *)
(* Each process is at the lookup, at the run of dbt ls, at the save, or    *)
(* done.                                                                   *)
(***************************************************************************)
Loads == {1, 2}

\* Variable_set with a fault (C25): the fields of the record are merged
\* into the stored record
Variable_set_merged(stored, cache_dict) ==
    IF stored.type = "dict" THEN json_dumps(DictMerge(stored.doc, cache_dict.doc))
    ELSE cache_dict

\* graph.py 270: Variable.set(key, cache_dict, serialize_json=True) replaces
\* the value under the key
Variable_set(stored, cache_dict) == cache_dict

InitTwoLoads ==
    /\ MainIdle
    /\ \E airflow_metadata \in [Loads -> {DagMetadata, EmptyDict}] :
         unit = [name |-> "load_via_dbt_ls", last_save |-> <<>>,
                 loads |-> [p \in Loads |->
                              [pc |-> "lookup", cache |-> "none", raised |-> "none",
                               airflow_metadata |-> airflow_metadata[p],
                               ls_invoked |-> FALSE, saved |-> FALSE, stdout |-> <<>>]]]

\* graph.py 364-366, 374-405 in process p
LookUpCache(p) ==
    /\ unit.name = "load_via_dbt_ls" /\ unit.loads[p].pc = "lookup"
    /\ LET c == [NoCall EXCEPT !.method = "dbt_ls", !.profile_config = TRUE,
                               !.enable_cache = TRUE, !.enable_cache_dbt_ls = TRUE,
                               !.cache_identifier = TRUE, !.project_path = TRUE,
                               !.dbt_ls_cache_key_args = CHOOSE a \in CmdArgLists : TRUE]
       IN \E r \in {load_via_dbt_ls_cache(NewGraph, c, store, project_dir)} :
            unit' = [unit EXCEPT
                     !.loads[p].raised = r.raised,
                     !.loads[p].cache = IF r.raised # "none" THEN "raised"
                                        ELSE IF r.returned THEN "hit" ELSE "miss",
                     !.loads[p].pc = IF r.raised = "none" /\ ~r.returned THEN "run"
                                     ELSE "done"]
    /\ UNCHANGED <<store, store_origin, project_dir, cache_dir, pc, graph, call>>

\* graph.py 348: run_command of dbt ls in process p; dbt ls prints nothing, a
\* model, a document that is no node, or an error
RunTool(p) ==
    /\ unit.name = "load_via_dbt_ls" /\ unit.loads[p].pc = "run"
    /\ \E ran \in {run_command(TRUE, proc) :
                      proc \in [found : BOOLEAN, returncode : {0, 1},
                                stdout : {<<>>, <<"m">>, <<"x">>, <<"E">>}]} :
         unit' = [unit EXCEPT
                    !.loads[p].raised = ran.raised,
                    !.loads[p].ls_invoked = ran.raised # "FileNotFoundError",
                    !.loads[p].stdout = ran.stdout,
                    !.loads[p].pc = IF ran.raised = "none" THEN "save" ELSE "done"]
    /\ UNCHANGED <<store, store_origin, project_dir, cache_dir, pc, graph, call>>

\* graph.py 358-361, 247-270 in process p: the save, then the parse
SaveCache(p) ==
    /\ unit.name = "load_via_dbt_ls" /\ unit.loads[p].pc = "save"
    /\ LET version == _calculate_dbt_ls_cache_current_version(
                          TRUE, project_dir, CHOOSE a \in CmdArgLists : TRUE)
           cache_dict == save_dbt_ls_cache(unit.loads[p].stdout, version,
                                           unit.loads[p].airflow_metadata)
       IN /\ store' = Variable_set(store, cache_dict)
          /\ unit' = [unit EXCEPT
                        !.last_save = <<[load |-> p, version |-> version]>>,
                        !.loads[p].saved = TRUE,
                        !.loads[p].raised =
                            parse_dbt_ls_output(TRUE, unit.loads[p].stdout).raised,
                        !.loads[p].pc = "done"]
    /\ UNCHANGED <<store_origin, project_dir, cache_dir, pc, graph, call>>

\* the project directory is edited while a load is running
EditProject ==
    /\ unit.name = "load_via_dbt_ls" /\ \E p \in Loads : unit.loads[p].pc # "done"
    /\ \E dir \in ProjectDirs \ {project_dir} : project_dir' = dir
    /\ UNCHANGED <<store, store_origin, cache_dir, pc, graph, call, unit>>

NextTwoLoads ==
    \/ \E p \in Loads : LookUpCache(p)
    \/ \E p \in Loads : RunTool(p)
    \/ \E p \in Loads : SaveCache(p)
    \/ EditProject

SpecTwoLoads == InitTwoLoads /\ [][NextTwoLoads]_vars

(***************************************************************************)
(* load_from_dbt_manifest run on its own, with a manifest path and a       *)
(* project path, without select or exclude, on a manifest document whose   *)
(* nodes, sources and exposures sections hold at most one entry each.  An  *)
(* entry carries some of the fields; "depends_on" in the fields of an      *)
(* entry stands for depends_on.nodes.                                      *)
(***************************************************************************)
ManifestDocuments ==
    [nodes : {<<>>} \cup {<<ManifestEntry(ModelId, "model", <<>>, fields)>> :
                             fields \in SUBSET ManifestFields},
     sources : {<<>>} \cup {<<ManifestEntry(<<"source", "proj", "s">>, "source", <<>>, fields)>> :
                               fields \in {ManifestFields, ManifestFields \ {"depends_on"}}},
     exposures : {<<>>} \cup {<<ManifestEntry(id, "exposure", <<ModelId>>, fields)>> :
                                 id \in {<<"exposure", "proj", "e">>, ModelId},
                                 fields \in {ManifestFields, ManifestFields \ {"config"}}}]

\* graph.py 592, {**a, **b} on dicts kept as sequences of entries
RECURSIVE merge_resources(_, _)
merge_resources(a, b) ==
    IF b = <<>> THEN a
    ELSE merge_resources(
             IF Head(b).key \in Keys(a)
             THEN [i \in 1..Len(a) |-> IF a[i].key = Head(b).key THEN Head(b) ELSE a[i]]
             ELSE Append(a, Head(b)),
             Tail(b))

InitLoadFromDbtManifest ==
    /\ MainIdle
    /\ unit \in {[name |-> "load_from_dbt_manifest", manifest |-> manifest,
                  done |-> FALSE, raised |-> "none", self |-> NewGraph] :
                    manifest \in ManifestDocuments}

\* graph.py 563-611
LoadFromDbtManifest ==
    /\ unit.name = "load_from_dbt_manifest" /\ ~unit.done
    /\ LET c == [NoCall EXCEPT !.method = "dbt_manifest",
                               !.manifest_available = TRUE,
                               !.execution_project_path = TRUE]
           resources == merge_resources(
                            merge_resources(unit.manifest.nodes, unit.manifest.sources),
                            unit.manifest.exposures)
           r == load_from_dbt_manifest(NewGraph, c, resources, Keys(resources))
       IN unit' = [unit EXCEPT !.done = TRUE, !.raised = r.raised, !.self = r.g]
    /\ UNCHANGED main_vars

SpecLoadFromDbtManifest == InitLoadFromDbtManifest /\ [][LoadFromDbtManifest]_vars

(***************************************************************************)
(* _create_cache_identifier and create_cache_key run on their own, for two *)
(* consumers: a DbtDag (a dag, no task group) or a DbtTaskGroup (a task    *)
(* group, in a dag or in none; the root group has no group_id).  An id is  *)
(* the sequence of its characters and None is the empty sequence: no id is *)
(* the empty string.  task_group is the empty sequence (None) or holds the *)
(* one task group.  A group_id joins the ids of the nested groups with     *)
(* dots.                                                                   *)
(***************************************************************************)
MaxIdLen == 3
Consumers ==
    LET dag_ids == SeqsUpTo({"a", "_"}, MaxIdLen) \ {<<>>}
        group_ids == {id \in SeqsUpTo({"a", "_", "."}, MaxIdLen) \ {<<>>} :
                        /\ id[1] # "." /\ id[Len(id)] # "."
                        /\ \A i \in 1..(Len(id) - 1) : ~(id[i] = "." /\ id[i + 1] = ".")}
    IN [dag : [dag_id : dag_ids], task_group : {<<>>}]
           \cup {[dag |-> [dag_id |-> IF dag_id = <<>> THEN <<"a">> ELSE dag_id],
                  task_group |-> <<[dag_id |-> dag_id, group_id |-> group_id]>>] :
                    dag_id \in dag_ids \cup {<<>>}, group_id \in group_ids \cup {<<>>}}

\* str.replace(old, new) for a one-character old
RECURSIVE str_replace(_, _, _)
str_replace(str, old, new) ==
    IF str = <<>> THEN <<>>
    ELSE (IF Head(str) = old THEN new ELSE <<Head(str)>>) \o str_replace(Tail(str), old, new)

\* cache.py 30-44
_get_airflow_metadata(dag, task_group) ==
    IF task_group # <<>>
    THEN [cosmos_type |-> IF task_group[1].group_id # <<>> THEN "DbtTaskGroup" ELSE "DbtDag",
          dag_id |-> task_group[1].dag_id,
          task_group_id |-> task_group[1].group_id]
    ELSE [cosmos_type |-> "DbtDag", dag_id |-> dag.dag_id, task_group_id |-> <<>>]

\* cache.py 52-70
_create_cache_identifier(dag, task_group) ==
    LET metadata == _get_airflow_metadata(dag, task_group)
        dag_id == metadata.dag_id
        task_group_id == metadata.task_group_id
        dag_part == IF dag_id # <<>> THEN <<dag_id>> ELSE <<>>
        cache_identifiers_list ==
            IF task_group_id # <<>>
            THEN Append(dag_part, str_replace(task_group_id, ".", <<"_", "_">>))
            ELSE dag_part
    IN CASE Len(cache_identifiers_list) = 0 -> <<>>
         [] Len(cache_identifiers_list) = 1 -> cache_identifiers_list[1]
         [] OTHER -> cache_identifiers_list[1] \o <<"_", "_">> \o cache_identifiers_list[2]

\* cache.py 73-74
create_cache_key(cache_identifier) == <<"cosmos_cache__">> \o cache_identifier

InitCreateCacheIdentifier ==
    /\ MainIdle
    /\ unit \in {[name |-> "_create_cache_identifier", consumers |-> consumers,
                  called |-> FALSE, cache_identifier |-> <<>>,
                  cache_key |-> <<>>] :
                    consumers \in Consumers \X Consumers}

\* cache.py 52-74, for the one consumer and for the other
CreateCacheIdentifier ==
    /\ unit.name = "_create_cache_identifier" /\ ~unit.called
    /\ LET cache_identifier ==
               [i \in {1, 2} |-> _create_cache_identifier(unit.consumers[i].dag,
                                                          unit.consumers[i].task_group)]
       IN unit' = [unit EXCEPT !.called = TRUE,
                               !.cache_identifier = cache_identifier,
                               !.cache_key = [i \in {1, 2} |->
                                                 create_cache_key(cache_identifier[i])]]
    /\ UNCHANGED main_vars

SpecCreateCacheIdentifier == InitCreateCacheIdentifier /\ [][CreateCacheIdentifier]_vars

(***************************************************************************)
(* Vocabulary of the properties below.                                     *)
(***************************************************************************)
\* the three gates of the cache, read off the configuration of the call
AllGatesPass(c) == c.enable_cache /\ c.enable_cache_dbt_ls /\ c.cache_identifier

\* the fingerprint of the project directory as it is now and of the call's
\* arguments
CurrentVersion ==
    _calculate_dbt_ls_cache_current_version(call.cache_identifier, project_dir,
                                            call.dbt_ls_cache_key_args)

\* the call has looked the cache up and neither the store nor the project
\* directory has changed since
AfterLookup ==
    /\ call.store_read
    /\ \/ pc = "stage"
       \/ pc = "done" /\ graph.load_method \in {"automatic", "dbt_ls_cache"}

\* the store holds a record with a version and a payload that decompresses
StoredSnapshot ==
    /\ store.kind = "json" /\ store.type = "dict"
    /\ HasKey(store.doc, "version") /\ HasKey(store.doc, "dbt_ls_compressed")
    /\ get_dbt_ls_cache(store).raised = "none"

\* the load has come to its end through dbt ls and has returned
ReturnedFromDbtLs ==
    pc = "done" /\ call.outcome = "returned" /\ graph.load_method = "dbt_ls"

(***************************************************************************)
(* C1.  A stored snapshot whose version differs from the fingerprint       *)
(* computed at the load is never used: the lookup is a miss although a     *)
(* payload is stored and nothing is assigned from it; and a load with the  *)
(* cache enabled that returns from dbt ls after a miss has invoked the     *)
(* tool and has overwritten the record with the version computed at the    *)
(* save and the output of the tool.                                        *)
(***************************************************************************)
C1_StaleSnapshotNeverUsed ==
    /\ (AfterLookup /\ StoredSnapshot /\ store.doc["version"] # CurrentVersion)
          => /\ call.cache = "miss"
             /\ ~call.assigned
             /\ graph.nodes = <<>> /\ graph.filtered_nodes = <<>>
    /\ (ReturnedFromDbtLs /\ AllGatesPass(call) /\ call.cache = "miss")
          => /\ call.ls_invoked
             /\ call.store_written
             /\ store = save_dbt_ls_cache(call.stdout, CurrentVersion, DagMetadata)

\* the lookup has just missed on a snapshot that a load stored, with a payload
\* that is not empty, for another content of the project directory
C1_Witness ==
    /\ pc = "stage" /\ AfterLookup /\ call.cache = "miss"
    /\ StoredSnapshot /\ store_origin.saved
    /\ get_dbt_ls_cache(store).dict["dbt_ls"] # <<>>
    /\ store.doc["version"] # CurrentVersion

(***************************************************************************)
(* C2.  Of two loads through dbt ls with the cache enabled, the project    *)
(* directory and the arguments the same at both, whatever the tool printed *)
(* on success: the first having missed, run the tool, saved and returned,  *)
(* the second is a cache hit, invokes no subprocess and ends with the node *)
(* sets the first ended with.                                              *)
(***************************************************************************)
C2_SecondLoadIsHit ==
    (/\ AfterLookup
     /\ store_origin.saved /\ store_origin.returned
     /\ store_origin.saw = CurrentVersion
     /\ StoredSnapshot /\ store.doc["version"] = CurrentVersion)
        => /\ call.cache = "hit"
           /\ ~call.tool_invoked
           /\ pc = "done" /\ call.outcome = "returned"
           /\ graph.objects = store_origin.graph.objects
           /\ graph.nodes = store_origin.graph.nodes
           /\ graph.filtered_nodes = store_origin.graph.filtered_nodes

(***************************************************************************)
(* C3.  Whenever a load is served from the cache, the payload it parses is *)
(* what the tool printed for a project directory and arguments whose       *)
(* fingerprint is the one computed at this load, also when the directory   *)
(* was edited between the run of the tool and the save.                    *)
(***************************************************************************)
C3_ServedPayloadIsOfCurrentFingerprint ==
    (AfterLookup /\ call.cache = "hit" /\ store_origin.saved)
        => store_origin.saw = CurrentVersion

(***************************************************************************)
(* C4.  Cache round trip: get_dbt_ls_cache on the record that              *)
(* save_dbt_ls_cache(P) has just written, nothing else having written the  *)
(* key since, returns a record whose dbt_ls text is P, the empty text      *)
(* included, and whose version is the version that save stored.            *)
(***************************************************************************)
C4_CacheRoundTrip ==
    /\ (pc = "done" /\ call.store_written)
          => LET got == get_dbt_ls_cache(store)
             IN /\ got.raised = "none"
                /\ HasKey(got.dict, "dbt_ls") /\ got.dict["dbt_ls"] = call.stdout
                /\ HasKey(got.dict, "version") /\ got.dict["version"] = CurrentVersion
    /\ store_origin.saved
          => LET got == get_dbt_ls_cache(store)
             IN /\ got.raised = "none"
                /\ HasKey(got.dict, "dbt_ls") /\ got.dict["dbt_ls"] \in OkTexts
                /\ ~HasKey(got.dict, "dbt_ls_compressed")

\* a load has just saved the empty text under the key
C4_Witness ==
    /\ pc = "done" /\ call.store_written /\ call.stdout = <<>>
    /\ get_dbt_ls_cache(store).dict["dbt_ls"] = <<>>

(***************************************************************************)
(* C5.  Reading the cache never aborts a load: when the key is absent, or  *)
(* its value is no JSON, or the record is corrupt in another way (fields   *)
(* missing, a payload that is no base64 or no compressed data), the lookup *)
(* is a miss and the load goes on to run the tool; nothing is raised.      *)
(***************************************************************************)
C5_CorruptRecordIsMiss ==
    (AfterLookup /\ store \in CorruptValues \cup {Absent})
        => /\ call.cache = "miss"
           /\ call.method # "dbt_ls_cache" => pc = "stage"

C7_FallbackOnlyWithoutExecutable ==
    (pc = "done" /\ call.method = "automatic")
        => /\ call.manifest_available
                => graph.load_method = "dbt_manifest" /\ ~call.custom_ran
           /\ (call.cache # "none" /\ call.custom_ran) => ~call.ls_invoked

(***************************************************************************)
(* C8.  When the tool runs and reports an error (an exit code other than   *)
(* 0 or the error marker in its output), load() raises the load exception  *)
(* under every strategy that invokes the tool, AUTOMATIC included: the     *)
(* custom parser does not run and no node set is assigned.                 *)
(***************************************************************************)
C8_ToolErrorPropagates ==
    (pc = "done" /\ call.tool_error)
        => /\ call.outcome = "CosmosLoadDbtException"
           /\ ~call.custom_ran
           /\ ~call.assigned
           /\ graph.nodes = <<>> /\ graph.filtered_nodes = <<>>

\* under AUTOMATIC dbt ls has run and reported an error
C8_Witness ==
    /\ pc = "done" /\ call.method = "automatic"
    /\ call.tool_error /\ call.ls_invoked

(***************************************************************************)
(* C9.  A load whose strategy lacks a required input (a project path or a  *)
(* profile for dbt ls, the manifest for the manifest strategy, the listing *)
(* file for the dbt ls file strategy, or a selector given to the custom    *)
(* parser or to the manifest strategy) always raises the load exception,   *)
(* whatever the store holds, with no tool invoked, nothing written to the  *)
(* store and neither node set assigned.  The store is taken empty or as a  *)
(* load that returned left it.                                             *)
(***************************************************************************)
LacksRequiredInput(c) ==
    LET target == load_target(c.method, c.manifest_available, c.execution_mode,
                              c.profile_config)
    IN \/ target = "dbt_ls" /\ (~c.project_path \/ ~c.profile_config)
       \/ target = "dbt_manifest" /\ (~c.manifest_available \/ c.selector)
       \/ target = "dbt_ls_file" /\ ~c.dbt_ls_file_available
       \/ target = "custom" /\ c.selector

C9_MissingInputRaises ==
    (/\ pc = "done" /\ LacksRequiredInput(call)
     /\ store = Absent \/ (store_origin.saved /\ store_origin.returned))
        => /\ call.outcome = "CosmosLoadDbtException"
           /\ ~call.tool_invoked
           /\ ~call.store_written
           /\ ~call.assigned
           /\ graph.nodes = <<>> /\ graph.filtered_nodes = <<>>

(***************************************************************************)
(* C10.  Whenever load() returns without raising, under each of the six    *)
(* methods, both node sets have been assigned during the call and          *)
(* load_method names the strategy that produced them.                      *)
(***************************************************************************)
C10_ReturnMeansAssigned ==
    (pc = "done" /\ call.outcome = "returned")
        => /\ call.assigned
           /\ graph.load_method =
                 IF call.custom_ran THEN "custom"
                 ELSE IF call.cache = "hit" THEN "dbt_ls_cache"
                 ELSE load_target(call.method, call.manifest_available,
                                  call.execution_mode, call.profile_config)

(***************************************************************************)
(* C11.  After every load() that returns, under every strategy and every   *)
(* selection, the keys of filtered_nodes are keys of nodes, the has_test   *)
(* propagation that ends load() included.                                  *)
(***************************************************************************)
C11_FilteredKeysAreNodeKeys ==
    (pc = "done" /\ call.outcome = "returned")
        => Keys(graph.filtered_nodes) \subseteq Keys(graph.nodes)

(***************************************************************************)
(* C12.  After the propagation that ends load(), for every graph and every *)
(* order of the nodes: a node has has_test exactly when it is in the       *)
(* filtered set the strategy produced and a test node of the full set      *)
(* lists it in depends_on.  (A dependency that names no node of the graph  *)
(* marks nothing.)                                                         *)
(***************************************************************************)
ListedByATest(g, unique_id) ==
    \E j \in 1..Len(g.nodes) :
        LET test == g.objects[g.nodes[j].obj]
        IN /\ test.resource_type = "test"
           /\ \E k \in 1..Len(test.depends_on) : test.depends_on[k] = unique_id

C12_HasTestIffFilteredAndTested ==
    (unit.name = "update_node_dependency" /\ unit.done)
        => \A i \in 1..Len(unit.self.objects) :
              unit.self.objects[i].has_test =
                 (/\ unit.loaded.objects[i].unique_id \in Keys(unit.loaded.filtered_nodes)
                  /\ ListedByATest(unit.loaded, unit.loaded.objects[i].unique_id))

(***************************************************************************)
(* C13.  The working directory of a load through dbt ls exists only while  *)
(* load_via_dbt_ls_without_cache runs: while it primes the directory and   *)
(* runs the tool the directory exists, and whenever control is back with   *)
(* the caller (the method has returned, or dbt deps, dbt ls, the priming   *)
(* or the harvest has raised) the directory has been removed.              *)
(***************************************************************************)
C13_WorkingDirOnlyDuringRun ==
    /\ pc \in {"ls", "ran"} => call.tmpdir = "exists"
    /\ pc \notin {"ls", "ran"} => call.tmpdir # "exists"
    /\ (pc = "done" /\ (call.tool_invoked \/ call.staging_error))
          => call.tmpdir = "removed"

\* the harvest has raised after dbt ls ran and the nodes were assigned
C13_Witness ==
    /\ pc = "done" /\ call.tmpdir = "removed"
    /\ call.ls_invoked /\ call.assigned /\ call.outcome = "FileNotFoundError"

(***************************************************************************)
(* C14.  delete_unused_dbt_ls_cache with the maximum idle age T, on any    *)
(* set of cache records, deletes exactly the cache keys whose dag, as      *)
(* named by dag_id in the stored record, has a latest run before Now - T:  *)
(* the keys of dags run at Now - T or later, the keys of dags without a    *)
(* run and every Variable that is no cache are kept.                       *)
(***************************************************************************)
NamesStaleDag(value, dag_runs, max_age_last_usage) ==
    /\ HasKey(value.doc, "dag_id")
    /\ value.doc["dag_id"] \in DagIds
    /\ dag_runs[value.doc["dag_id"]] # {}
    /\ \A date \in dag_runs[value.doc["dag_id"]] : date < Now - max_age_last_usage

C14_DeletesExactlyKeysOfStaleDags ==
    (unit.name = "delete_unused_dbt_ls_cache" /\ unit.done)
        => \A key \in DOMAIN unit.all_variables :
              /\ key \in DOMAIN unit.variables =>
                    unit.variables[key] = unit.all_variables[key]
              /\ key \notin DOMAIN unit.variables <=>
                    /\ startswith_prefix(key)
                    /\ NamesStaleDag(unit.all_variables[key], unit.dag_runs,
                                     unit.max_age_last_usage)

(***************************************************************************)
(* C15.  Fingerprint determinism: two calls on the same files with the     *)
(* same contents and on the same arguments return the same version, in     *)
(* whatever order os.walk lists the files, whatever their modification     *)
(* times and whatever the cache identifier.                                *)
(***************************************************************************)
TwoVersions == unit.name = "_calculate_dbt_ls_cache_current_version" /\ Len(unit.calls) = 2

C15_FingerprintDeterminism ==
    (/\ TwoVersions
     /\ unit.calls[1].project_dir = unit.calls[2].project_dir
     /\ unit.calls[1].cmd_args = unit.calls[2].cmd_args)
        => unit.calls[1].version = unit.calls[2].version

\* two calls on the same two files, with different contents, listed in
\* different orders, with other modification times and another identifier
C15_Witness ==
    /\ TwoVersions
    /\ unit.calls[1].project_dir = unit.calls[2].project_dir
    /\ unit.calls[1].cmd_args = unit.calls[2].cmd_args
    /\ DOMAIN unit.calls[1].project_dir = {1, 2}
    /\ unit.calls[1].project_dir = (1 :> <<7>> @@ 2 :> <<8>>)
    /\ unit.calls[1].filepaths # unit.calls[2].filepaths
    /\ unit.calls[1].st_mtime # unit.calls[2].st_mtime
    /\ unit.calls[1].cache_identifier # unit.calls[2].cache_identifier
    /\ unit.calls[1].version = unit.calls[2].version

(***************************************************************************)
(* C16.  Fingerprint sensitivity, the digest taken as free of collisions:  *)
(* two project directories with the same files of which one differs in     *)
(* content, and two argument lists that differ in an argument, never have  *)
(* the same version.                                                       *)
(***************************************************************************)
C16_FingerprintSensitivity ==
    (/\ TwoVersions
     /\ \/ /\ DOMAIN unit.calls[1].project_dir = DOMAIN unit.calls[2].project_dir
           /\ unit.calls[1].project_dir # unit.calls[2].project_dir
        \/ unit.calls[1].cmd_args # unit.calls[2].cmd_args)
        => unit.calls[1].version # unit.calls[2].version

(***************************************************************************)
(* C17.  _get_latest_partial_parse returns, whichever of the two files     *)
(* exist and whatever their modification times: none if neither exists,    *)
(* the existing one if one exists, the one modified later if both exist    *)
(* (one of the two when they were modified at the same time).              *)
(***************************************************************************)
C17_LatestPartialParse ==
    (unit.name = "_get_latest_partial_parse" /\ unit.called) =>
        LET project == unit.project_partial_parse_path
            cached == unit.cosmos_cached_partial_parse_filepath
        IN /\ (~project.exists /\ ~cached.exists) => unit.returned = "none"
           /\ (project.exists /\ ~cached.exists) => unit.returned = "project"
           /\ (~project.exists /\ cached.exists) => unit.returned = "cache"
           /\ (project.exists /\ cached.exists) =>
                 /\ project.st_mtime > cached.st_mtime => unit.returned = "project"
                 /\ cached.st_mtime > project.st_mtime => unit.returned = "cache"
                 /\ unit.returned \in {"project", "cache"}

(***************************************************************************)
(* C18.  Patch idempotence: for every artifact and every target project    *)
(* directory, once patch_partial_parse_content has run, a second run with  *)
(* the same arguments returns False and leaves the file as the first run   *)
(* left it.                                                                *)
(***************************************************************************)
C18_SecondPatchChangesNothing ==
    (unit.name = "patch_partial_parse_content" /\ Len(unit.runs) = 2)
        => /\ unit.runs[2].raised = "none"
           /\ ~unit.runs[2].returned
           /\ ~unit.runs[2].wrote
           /\ unit.file = unit.runs[1].file

(***************************************************************************)
(* C19.  On an artifact that cannot be read or is corrupt (bytes that do   *)
(* not decode, a document that is no mapping or has no nodes section, node *)
(* records that are no mappings) patch_partial_parse_content raises        *)
(* nothing, returns False and leaves the file unchanged.                   *)
(***************************************************************************)
IsCorrupt(file) ==
    LET unpacked == msgpack_unpack(file)
    IN \/ ~unpacked.ok
       \/ unpacked.data.type # "map"
       \/ unpacked.data.nodes_type # "map"
       \/ \E i \in 1..Len(unpacked.data.nodes) : unpacked.data.nodes[i].type # "dict"

C19_CorruptArtifactIsSkipped ==
    (/\ unit.name = "patch_partial_parse_content" /\ Len(unit.runs) >= 1
     /\ IsCorrupt(unit.original))
        => /\ unit.runs[1].raised = "none"
           /\ ~unit.runs[1].returned
           /\ unit.runs[1].file = unit.original

(***************************************************************************)
(* C20.  patch_partial_parse_content writes the file exactly when it has   *)
(* rewritten the root_path of a record, and returns True exactly then; and *)
(* when it has rewritten no record the bytes of the file are unchanged.    *)
(***************************************************************************)
C20_WritesIffRewrote ==
    (unit.name = "patch_partial_parse_content" /\ Len(unit.runs) >= 1)
        => /\ unit.runs[1].wrote = unit.runs[1].rewrote
           /\ unit.runs[1].returned = unit.runs[1].rewrote
           /\ ~unit.runs[1].rewrote => unit.runs[1].file = unit.original

(***************************************************************************)
(* C21.  On an artifact whose node records are mappings,                   *)
(* patch_partial_parse_content scans the records in order and stops at the *)
(* first record whose root_path exists on disk: the file afterwards holds  *)
(* the target project directory in exactly the records before that one     *)
(* whose root_path does not exist (records without a root_path are passed  *)
(* over), and every other record as it was, the records after the stop     *)
(* with a root_path that does not exist included.                          *)
(***************************************************************************)
\* the record has a root_path and Path(root_path).exists() (Path("") is ".")
RootPathExists(node) ==
    /\ node.root_path \notin {"absent", "nil"}
    /\ node.root_path = "" \/ node.root_path \in ExistingPaths

RootPathIsGone(node) ==
    /\ node.root_path \notin {"absent", "nil"}
    /\ ~RootPathExists(node)

C21_ScanStopsAtFirstExistingRoot ==
    (/\ unit.name = "patch_partial_parse_content" /\ Len(unit.runs) >= 1
     /\ ~IsCorrupt(unit.original))
        => LET before == msgpack_unpack(unit.original).data.nodes
               after == msgpack_unpack(unit.runs[1].file).data.nodes
               scanned(i) == \A j \in 1..(i - 1) : ~RootPathExists(before[j])
           IN /\ unit.runs[1].raised = "none"
              /\ ~IsCorrupt(unit.runs[1].file)
              /\ Len(after) = Len(before)
              /\ \A i \in 1..Len(before) :
                    after[i] = IF scanned(i) /\ RootPathIsGone(before[i])
                               THEN [before[i] EXCEPT !.root_path = unit.project_path]
                               ELSE before[i]

\* a record whose root_path is gone after a record whose root_path exists:
\* the run has left both as they were
C21_Witness ==
    /\ unit.name = "patch_partial_parse_content" /\ Len(unit.runs) >= 1
    /\ ~IsCorrupt(unit.original)
    /\ LET before == msgpack_unpack(unit.original).data.nodes
       IN /\ Len(before) = 2
          /\ before[1].root_path = LivePath /\ before[2].root_path = OldPath
    /\ unit.runs[1].file = unit.original

C23_SavedOutputHasParsed ==
    (pc = "done" /\ call.store_written)
        => /\ call.assigned
           /\ parse_dbt_ls_output(call.project_path,
                                  get_dbt_ls_cache(store).dict["dbt_ls"]).raised = "none"

C25_LastSaveWinsWholesale ==
    unit.name = "load_via_dbt_ls" =>
        /\ \A p \in Loads :
              /\ unit.loads[p].pc = "lookup" => ENABLED LookUpCache(p)
              /\ unit.loads[p].pc = "run" => ENABLED RunTool(p)
              /\ unit.loads[p].pc = "save" => ENABLED SaveCache(p)
              /\ unit.loads[p].cache = "miss" => unit.loads[p].pc \in {"run", "save", "done"}
              /\ (unit.loads[p].pc = "done" /\ unit.loads[p].cache = "miss")
                    => \/ unit.loads[p].ls_invoked /\ unit.loads[p].saved
                       \/ unit.loads[p].raised \in {"FileNotFoundError",
                                                    "CosmosLoadDbtException"}
                          /\ ~unit.loads[p].saved
        /\ (unit.last_save # <<>> /\ \A p \in Loads : unit.loads[p].pc = "done")
              => LET last == unit.last_save[1]
                 IN store = save_dbt_ls_cache(unit.loads[last.load].stdout, last.version,
                                              unit.loads[last.load].airflow_metadata)

\* both loads have missed and saved, the one with the metadata of a dag
\* first, the one without metadata last, other outputs and other versions
C25_Witness ==
    /\ unit.name = "load_via_dbt_ls"
    /\ \A p \in Loads :
          unit.loads[p].pc = "done" /\ unit.loads[p].cache = "miss" /\ unit.loads[p].saved
    /\ unit.last_save[1].load = 2
    /\ unit.loads[1].airflow_metadata = DagMetadata
    /\ unit.loads[2].airflow_metadata = EmptyDict
    /\ unit.loads[1].stdout # unit.loads[2].stdout
    /\ ~HasKey(store.doc, "dag_id")

(***************************************************************************)
(* C26.  update_node_dependency changes nothing but has_test: for every    *)
(* graph and every selection the keys of nodes and the keys of             *)
(* filtered_nodes are the same after it as before it (a test node that the *)
(* selection excluded is not in filtered_nodes afterwards), and no field   *)
(* of a node other than has_test is changed.                               *)
(***************************************************************************)
C26_OnlyHasTestChanges ==
    (unit.name = "update_node_dependency" /\ unit.done)
        => /\ Keys(unit.self.nodes) = Keys(unit.loaded.nodes)
           /\ Keys(unit.self.filtered_nodes) = Keys(unit.loaded.filtered_nodes)
           /\ \A i \in 1..Len(unit.loaded.objects) :
                 [unit.self.objects[i] EXCEPT !.has_test = FALSE] = unit.loaded.objects[i]


(***************************************************************************)
(* C27.  After every load() that returns, under every strategy, each key   *)
(* of nodes and each key of filtered_nodes is the unique_id of the node it *)
(* maps to.                                                                *)
(***************************************************************************)
KeyedByUniqueId(g, d) ==
    \A i \in 1..Len(d) : d[i].key = g.objects[d[i].obj].unique_id

C27_KeysAreUniqueIds ==
    (pc = "done" /\ call.outcome = "returned")
        => /\ KeyedByUniqueId(graph, graph.nodes)
           /\ KeyedByUniqueId(graph, graph.filtered_nodes)


(***************************************************************************)
(* C28.  load_from_dbt_manifest merges the nodes, sources and exposures    *)
(* sections into one mapping keyed by unique id and requires resource_type,*)
(* depends_on.nodes, original_file_path, tags and config of every entry:   *)
(* when an entry lacks one of them the load raises and produces no node.   *)
(***************************************************************************)
ManifestEntries(manifest) ==
    {manifest.nodes[i] : i \in 1..Len(manifest.nodes)}
        \cup {manifest.sources[i] : i \in 1..Len(manifest.sources)}
        \cup {manifest.exposures[i] : i \in 1..Len(manifest.exposures)}
\* the entries of the merged mapping: of two entries with one unique id the
\* one of the later section
MergedEntries(manifest) ==
    {entry \in ManifestEntries(manifest) :
        \/ entry.key \notin Keys(manifest.exposures)
        \/ entry \in ManifestEntries([manifest EXCEPT !.nodes = <<>>, !.sources = <<>>])}

C28_ManifestRequiresEveryField ==
    (unit.name = "load_from_dbt_manifest" /\ unit.done)
        => IF \E entry \in MergedEntries(unit.manifest) : DOMAIN entry.doc # ManifestFields
           THEN unit.raised # "none" /\ unit.self.nodes = <<>>
           ELSE /\ unit.raised = "none"
                /\ Keys(unit.self.nodes) = {entry.key : entry \in MergedEntries(unit.manifest)}
                /\ KeyedByUniqueId(unit.self, unit.self.nodes)


(***************************************************************************)
(* C29.  parse_dbt_ls_output treats each line on its own: a line that is   *)
(* not a JSON object with the required fields is skipped and never makes   *)
(* the parse raise, and the result holds one node per unique_id of the     *)
(* other lines.  Stated on the step of load_via_dbt_ls_without_cache that  *)
(* parses the output of dbt ls.                                            *)
(***************************************************************************)
WellFormedIds(ls_stdout) ==
    {json_loads(Split(ls_stdout)[i])["unique_id"] :
        i \in {j \in 1..Len(Split(ls_stdout)) :
                  /\ IsJson(Split(ls_stdout)[j])
                  /\ HasKey(json_loads(Split(ls_stdout)[j]), "unique_id")}}

C29_MalformedLinesAreSkipped ==
    [][(pc = "ran" /\ pc' = "done")
          => LET parsed == parse_dbt_ls_output(call.project_path, call.stdout)
             IN /\ parsed.raised = "none"
                /\ Keys(parsed.nodes) = WellFormedIds(call.stdout)
                /\ call'.outcome # "KeyError"]_vars


(***************************************************************************)
(* C30.  Two consumers that differ in their pair of dag id and task group  *)
(* id, ids with dots or double underscores and a DbtDag against a          *)
(* DbtTaskGroup included, get different cache identifiers, hence different *)
(* cache keys.                                                             *)
(***************************************************************************)
ConsumerPair(consumer) ==
    LET metadata == _get_airflow_metadata(consumer.dag, consumer.task_group)
    IN <<metadata.dag_id, metadata.task_group_id>>

C30_IdentifierIsUnique ==
    (/\ unit.name = "_create_cache_identifier" /\ unit.called
     /\ ConsumerPair(unit.consumers[1]) # ConsumerPair(unit.consumers[2]))
        => /\ unit.cache_identifier[1] # unit.cache_identifier[2]
           /\ unit.cache_key[1] # unit.cache_key[2]


(***************************************************************************)
(* C31.  delete_unused_dbt_ls_cache completes without an error on every    *)
(* Variable table the system can produce (records written by               *)
(* save_dbt_ls_cache, those saved with empty airflow_metadata included,    *)
(* next to Variables that are no cache): it deletes only keys with the     *)
(* cache prefix and returns the number of keys it deleted.                 *)
(***************************************************************************)
C31_GarbageCollectionCompletes ==
    (unit.name = "delete_unused_dbt_ls_cache" /\ unit.done)
        => /\ unit.raised = "none"
           /\ DOMAIN unit.variables \subseteq DOMAIN unit.all_variables
           /\ \A key \in DOMAIN unit.all_variables \ DOMAIN unit.variables :
                 startswith_prefix(key)
           /\ unit.returned =
                 Cardinality(DOMAIN unit.all_variables \ DOMAIN unit.variables)

====
